---------------------------- MODULE Spec2Model ----------------------------
(***************************************************************************)
(* A model of the four allocators of bronxdo/alloc: the bump arena         *)
(* (src/arena.h), the LIFO stack (src/stack.h), the fixed-size pool        *)
(* (src/pool.h) and the multi-class slab (src/slab.h).                     *)
(*                                                                         *)
(* Each allocator is self-contained in the source, so each has its own     *)
(* specification (SpecArena, SpecStack, SpecPool, SpecSlab) over its own   *)
(* variables; the variables of the other three stay at their idle value.   *)
(*                                                                         *)
(* Addresses are natural numbers.  size_t arithmetic is done modulo        *)
(* 2^WordBits, as the C code does it modulo 2^64, so that every wrap the   *)
(* code guards against (or fails to guard against) happens in the model.   *)
(***************************************************************************)
EXTENDS Integers, Sequences, FiniteSets, TLC

(***************************************************************************)
(* State.  Every allocator has its descriptor (the C struct, as a record), *)
(* the part of the backing memory the code itself reads back, and the      *)
(* caller's view: the pointers and markers it holds, and the last call     *)
(* with what it returned.                                                  *)
(***************************************************************************)
VARIABLES
    acfg,       \* arena build and construction: [chaining, dynamic]
    arena,      \* arena_t
    heap,       \* the arena_block_t objects malloc has handed out and free has not taken back
    amarkers,   \* the caller's arena markers that are still valid, oldest first
    alive,      \* the caller's non-zero-size arena allocations not yet invalidated
    aev,        \* the last arena call and what it returned
    adbg,       \* the ARENA_DEBUG fields of arena_t, and the bytes the last call filled
    scfg,       \* stack build: [debug, validate_lifo]
    stack,      \* stack_t
    smem,       \* the header words in the stack's buffer: offset of the word -> value
    smarkers,   \* the caller's stack markers that are still valid, oldest first
    slive,      \* the caller's live stack allocations, oldest first
    sev,        \* the last stack call and what it returned
    pcfg,       \* pool build and construction: [debug, user_buffer, size, slot_size]
    pool,       \* pool_t
    pmem,       \* the first two words of every slot: slot address -> [next, word2]
    pallocated, \* the slot addresses the caller holds
    plast,      \* the slot the last accepted pool_free released, until the next alloc or reset
    pev,        \* the last pool call and what it returned
    lcfg,       \* slab build and construction: [debug, buffer, size, sizes]
    slab,       \* slab_t
    lmem,       \* the first word of every slot: slot address -> next
    lallocated, \* the slot addresses the caller holds
    lev         \* the last slab call and what it returned

avars == <<acfg, arena, heap, amarkers, alive, aev, adbg>>

svars == <<scfg, stack, smem, smarkers, slive, sev>>

pvars == <<pcfg, pool, pmem, pallocated, plast, pev>>

lvars == <<lcfg, slab, lmem, lallocated, lev>>

vars == <<avars, svars, pvars, lvars>>

(***************************************************************************)
(* Platform: the width of size_t / uintptr_t and the null pointer.         *)
(***************************************************************************)
WordBits == 12

SIZE_MAX == 2^WordBits - 1

NULL == 0

\* sizeof(void *) = sizeof(size_t) = sizeof(uintptr_t) on the LP64 target
SizeofPtr == 8

\* the power-of-two test x != 0 && (x & (x - 1)) == 0
IsPow2(x) == \E k \in 0..(WordBits - 1) : x = 2^k

\* (value + align - 1) & ~(align - 1) in size_t arithmetic, align a power of two
AlignUpWord(value, align) ==
    LET s == (value + align - 1) % (SIZE_MAX + 1)
    IN  s - (s % align)

Max2(a, b) == IF a > b THEN a ELSE b

Range(f) == {f[i] : i \in DOMAIN f}

(***************************************************************************)
(*                                ARENA                                    *)
(*                                                                         *)
(* The release build of src/arena.h, with ARENA_BLOCK_CHAINING either off  *)
(* or on (acfg.chaining).  In a chaining build an arena made by arena_init *)
(* over a caller's buffer has first_block = NULL and never grows; one made *)
(* by arena_init_dynamic owns a chain of malloc'ed blocks.                 *)
(***************************************************************************)
\* ARENA_DEFAULT_ALIGN, set with -DARENA_DEFAULT_ALIGN=8
ARENA_DEFAULT_ALIGN == 8

\* ARENA_BLOCK_MIN_SIZE, set with -DARENA_BLOCK_MIN_SIZE=32
ARENA_BLOCK_MIN_SIZE == 32

\* sizeof(arena_block_t): two pointers, two size_t, two pointers... padded to 48
SizeofArenaBlock == 48

\* how many blocks malloc can have outstanding before it fails
MaxBlocks == 3

\* how many markers the caller keeps
MaxMarkers == 2

\* how many live allocations the caller keeps
MaxLive == 2

\* successful allocations counted by an ARENA_DEBUG arena
MaxArenaAllocs == 3

\* malloc hands out memory aligned to MallocAlign; block k sits in its own
\* stretch of HeapStride bytes, at one of the aligned places in it
MallocAlign == 2 * SizeofPtr

HeapStride == 16 * MallocAlign

\* where in its stretch malloc puts block id: every other block is aligned
\* to MallocAlign only
MallocDelta(id) == (id % 2) * MallocAlign

\* the caller's buffers: addresses (one aligned to 64, one only to 4) and length
ArenaBufAddrs == {64, 68}

ArenaBufSizes == {40}

ArenaInitialSizes == {8}

ArenaSizes == {0, 1, 24, SIZE_MAX}

ArenaAligns == {8, 32}

arena__is_power_of_two(x) == IsPow2(x)

arena__align_up(value, align) == AlignUpWord(value, align)

arena__safe_add(a, b) == IF a > SIZE_MAX - b THEN SIZE_MAX ELSE a + b

\* a variant that forgets the size check
arena__calc_aligned_offset_nosize(current_offset, align, size, capacity) ==
    LET aligned == arena__align_up(current_offset, align)
    IN  IF aligned < current_offset THEN [ok |-> FALSE, aligned_offset |-> 0, padding |-> 0]
        ELSE IF aligned > capacity THEN [ok |-> FALSE, aligned_offset |-> 0, padding |-> 0]
        ELSE [ok |-> TRUE, aligned_offset |-> aligned, padding |-> aligned - current_offset]

arena__calc_aligned_offset(current_offset, align, size, capacity) ==
    LET aligned == arena__align_up(current_offset, align)
    IN  IF aligned < current_offset THEN [ok |-> FALSE, aligned_offset |-> 0, padding |-> 0]
        ELSE IF aligned > capacity THEN [ok |-> FALSE, aligned_offset |-> 0, padding |-> 0]
        ELSE IF size > capacity - aligned THEN [ok |-> FALSE, aligned_offset |-> 0, padding |-> 0]
        ELSE [ok |-> TRUE, aligned_offset |-> aligned, padding |-> aligned - current_offset]

\* malloc: the block id it hands out, the smallest one free; it fails, and
\* returns NULL, when MaxBlocks blocks are outstanding
Malloc(h) ==
    IF \E id \in 1..MaxBlocks : id \notin DOMAIN h
    THEN CHOOSE id \in 1..MaxBlocks :
            id \notin DOMAIN h /\ \A j \in 1..(id - 1) : j \in DOMAIN h
    ELSE NULL

\* arena__create_block: [id, block]; id = NULL when it returns NULL.
arena__create_block(h, min_size) ==
    LET size        == IF min_size < ARENA_BLOCK_MIN_SIZE THEN ARENA_BLOCK_MIN_SIZE ELSE min_size
        header_size == arena__align_up(SizeofArenaBlock, ARENA_DEFAULT_ALIGN)
        total_size  == arena__safe_add(header_size, size)
        id          == IF total_size = SIZE_MAX THEN NULL ELSE Malloc(h)
        memory      == id * HeapStride + MallocDelta(id)
    IN  [id |-> id,
         block |-> [buffer |-> memory + header_size, capacity |-> size, offset |-> 0,
                    next |-> NULL, prev |-> NULL, owned |-> TRUE]]

\* the blocks from b on, following next; a block that is no longer in the
\* heap ends the walk
RECURSIVE ChainFrom(_, _, _)
ChainFrom(h, b, fuel) ==
    IF b = NULL \/ b \notin DOMAIN h \/ fuel = 0 THEN <<>>
    ELSE <<b>> \o ChainFrom(h, h[b].next, fuel - 1)

Chain(h, b) == ChainFrom(h, b, MaxBlocks + 1)

\* arena__free_block_chain: the heap after freeing the chain that starts at
\* first (first itself only when free_first); only owned blocks are freed
arena__free_block_chain(h, first, free_first) ==
    LET c     == Chain(h, first)
        freed == {c[i] : i \in {j \in 1..Len(c) : (c[j] # first \/ free_first) /\ h[c[j]].owned}}
    IN  [b \in (DOMAIN h) \ freed |-> h[b]]

ArenaZero ==
    [buffer |-> NULL, capacity |-> 0, offset |-> 0, initialized |-> FALSE,
     first_block |-> NULL, current_block |-> NULL, owns_first |-> FALSE]

\* arena_init over a buffer, or over no buffer (NULL) of size 0
arena_init(buffer, size) ==
    [ArenaZero EXCEPT !.buffer = buffer, !.capacity = size, !.initialized = TRUE]

arena_capacity(a, h) ==
    IF ~a.initialized THEN 0
    ELSE IF a.first_block # NULL
    THEN LET c == Chain(h, a.first_block)
             RECURSIVE Sum(_, _)
             Sum(i, total) ==
                 IF i > Len(c) THEN total
                 ELSE LET t == arena__safe_add(total, h[c[i]].capacity)
                      IN  IF t = SIZE_MAX THEN SIZE_MAX ELSE Sum(i + 1, t)
         IN  Sum(1, 0)
    ELSE a.capacity

arena_used(a, h) ==
    IF ~a.initialized THEN 0
    ELSE IF a.first_block # NULL
    THEN LET c == Chain(h, a.first_block)
             RECURSIVE Sum(_, _)
             Sum(i, total) ==
                 IF i > Len(c) THEN total
                 ELSE LET t == arena__safe_add(total, h[c[i]].offset)
                      IN  IF t = SIZE_MAX THEN SIZE_MAX ELSE Sum(i + 1, t)
         IN  Sum(1, 0)
    ELSE a.offset

\* a variant that reports the whole capacity as remaining
arena_remaining_full(a) == IF ~a.initialized THEN 0 ELSE a.capacity

arena_remaining(a) ==
    IF ~a.initialized THEN 0
    ELSE IF a.offset > a.capacity THEN 0
    ELSE a.capacity - a.offset

\* arena_stats, the release build's fields: [capacity, used, remaining,
\* block_count, total_capacity]
arena_stats(a, h) ==
    IF ~a.initialized
    THEN [capacity |-> 0, used |-> 0, remaining |-> 0, block_count |-> 0, total_capacity |-> 0]
    ELSE IF a.first_block # NULL
    THEN LET c == Chain(h, a.first_block)
             RECURSIVE SumCap(_, _)
             SumCap(i, total) ==
                 IF i > Len(c) THEN total
                 ELSE SumCap(i + 1, arena__safe_add(total, h[c[i]].capacity))
             RECURSIVE SumUsed(_, _)
             SumUsed(i, total) ==
                 IF i > Len(c) THEN total
                 ELSE SumUsed(i + 1, arena__safe_add(total, h[c[i]].offset))
         IN  [capacity |-> SumCap(1, 0), used |-> SumUsed(1, 0),
              remaining |-> arena_remaining(a),
              block_count |-> Len(c), total_capacity |-> SumCap(1, 0)]
    ELSE [capacity |-> a.capacity, used |-> a.offset, remaining |-> arena_remaining(a),
          block_count |-> 0, total_capacity |-> 0]

\* arena_init_dynamic: [ok, a, h]
arena_init_dynamic(initial_size) ==
    LET cb == arena__create_block(<<>>, initial_size)
    IN  IF cb.id = NULL THEN [ok |-> FALSE, a |-> ArenaZero, h |-> <<>>]
        ELSE [ok |-> TRUE,
              a  |-> [ArenaZero EXCEPT !.buffer = cb.block.buffer,
                                       !.capacity = cb.block.capacity,
                                       !.initialized = TRUE,
                                       !.first_block = cb.id,
                                       !.current_block = cb.id,
                                       !.owns_first = TRUE],
              h  |-> (cb.id :> cb.block)]

\* what arena__alloc returns and leaves behind: [ret, a, h, advanced]
\* (advanced: the watermark moved, i.e. a non-zero-size allocation was made)
AllocNull(a, h) == [ret |-> NULL, a |-> a, h |-> h, advanced |-> FALSE]

\* the tail of arena__alloc from the label do_alloc on
arena__do_alloc(a, h, size, aligned_offset) ==
    LET a1 == [a EXCEPT !.offset = (aligned_offset + size) % (SIZE_MAX + 1)]
        h1 == IF a1.current_block # NULL
              THEN [h EXCEPT ![a1.current_block].offset = a1.offset]
              ELSE h
    IN  [ret |-> a.buffer + aligned_offset, a |-> a1, h |-> h1, advanced |-> TRUE]

\* a variant of the growth branch that rewinds the block it leaves
arena__grow_rewind(a, h, size, align) ==
    IF a.first_block = NULL THEN AllocNull(a, h)
    ELSE
    LET needed == arena__safe_add(size, align - 1)
        cb     == arena__create_block(h, needed)
    IN  IF needed = SIZE_MAX \/ cb.id = NULL THEN AllocNull(a, h)
        ELSE
        LET nb == [cb.block EXCEPT !.prev = a.current_block]
            h1 == [b \in (DOMAIN h) \cup {cb.id} |->
                      IF b = cb.id THEN nb
                      ELSE IF b = a.current_block
                           THEN [h[b] EXCEPT !.next = cb.id, !.offset = 0]
                      ELSE h[b]]
            a1 == [a EXCEPT !.current_block = cb.id, !.buffer = nb.buffer,
                            !.capacity = nb.capacity, !.offset = 0]
            r  == arena__calc_aligned_offset(0, align, size, a1.capacity)
        IN  IF ~r.ok THEN [ret |-> NULL, a |-> a1, h |-> h1, advanced |-> FALSE]
            ELSE arena__do_alloc(a1, h1, size, r.aligned_offset)

\* the growth branch of arena__alloc, taken when the current region cannot
\* hold the request
arena__grow(a, h, size, align) ==
    IF a.first_block = NULL THEN AllocNull(a, h)
    ELSE
    LET needed == arena__safe_add(size, align - 1)
        cb     == arena__create_block(h, needed)
    IN  IF needed = SIZE_MAX THEN AllocNull(a, h)
        ELSE IF cb.id = NULL THEN AllocNull(a, h)
        ELSE
        LET nb == IF a.current_block # NULL
                  THEN [cb.block EXCEPT !.prev = a.current_block]
                  ELSE cb.block
            h1 == IF a.current_block # NULL
                  THEN [b \in (DOMAIN h) \cup {cb.id} |->
                          IF b = cb.id THEN nb
                          ELSE IF b = a.current_block THEN [h[b] EXCEPT !.next = cb.id]
                          ELSE h[b]]
                  ELSE [b \in (DOMAIN h) \cup {cb.id} |-> IF b = cb.id THEN nb ELSE h[b]]
            a1 == [a EXCEPT !.current_block = cb.id, !.buffer = nb.buffer,
                            !.capacity = nb.capacity, !.offset = 0]
            r  == arena__calc_aligned_offset(0, align, size, a1.capacity)
        IN  IF ~r.ok THEN [ret |-> NULL, a |-> a1, h |-> h1, advanced |-> FALSE]
            ELSE arena__do_alloc(a1, h1, size, r.aligned_offset)

\* a variant that keeps the alignment padding when the request does not fit
arena__alloc_partial(cfg, a, h, size, align) ==
    IF ~a.initialized THEN AllocNull(a, h)
    ELSE IF ~arena__is_power_of_two(align) THEN AllocNull(a, h)
    ELSE IF size = 0 THEN [ret |-> a.buffer + a.offset, a |-> a, h |-> h, advanced |-> FALSE]
    ELSE
    LET r == arena__calc_aligned_offset(a.offset, align, size, a.capacity)
        p == arena__align_up(a.offset, align)
    IN  IF r.ok THEN arena__do_alloc(a, h, size, r.aligned_offset)
        ELSE IF cfg.chaining THEN arena__grow(a, h, size, align)
        ELSE AllocNull([a EXCEPT !.offset = IF p >= a.offset /\ p <= a.capacity THEN p ELSE @], h)

arena__alloc(cfg, a, h, size, align) ==
    IF ~a.initialized THEN AllocNull(a, h)
    ELSE IF ~arena__is_power_of_two(align) THEN AllocNull(a, h)
    ELSE IF size = 0 THEN [ret |-> a.buffer + a.offset, a |-> a, h |-> h, advanced |-> FALSE]
    ELSE
    LET r == arena__calc_aligned_offset(a.offset, align, size, a.capacity)
    IN  IF r.ok THEN arena__do_alloc(a, h, size, r.aligned_offset)
        ELSE IF cfg.chaining THEN arena__grow(a, h, size, align)
        ELSE AllocNull(a, h)

\* arena_save; the caller also remembers how many of its allocations were
\* live and what arena_used said
arena_save(a, h, nlive) ==
    [offset |-> a.offset, block |-> a.current_block,
     nlive |-> nlive, used |-> arena_used(a, h)]

\* a variant that leaves the newer blocks linked and allocated
arena_reset_to_keepchain(cfg, a, h, marker) ==
    IF ~a.initialized THEN [a |-> a, h |-> h]
    ELSE IF cfg.chaining /\ a.first_block # NULL /\ marker.block # NULL
    THEN LET mb == marker.block
             h2 == [h EXCEPT ![mb].offset = marker.offset]
         IN  [a |-> [a EXCEPT !.current_block = mb, !.buffer = h2[mb].buffer,
                              !.capacity = h2[mb].capacity, !.offset = marker.offset],
              h |-> h2]
    ELSE [a |-> [a EXCEPT !.offset = marker.offset], h |-> h]

\* arena_reset_to: [a, h]
\* a variant that leaves the marker's block at the offset it had
arena_reset_to_blockoffset(cfg, a, h, marker) ==
    IF ~a.initialized THEN [a |-> a, h |-> h]
    ELSE IF cfg.chaining /\ a.first_block # NULL /\ marker.block # NULL
    THEN LET mb == marker.block
             h1 == IF h[mb].next # NULL
                   THEN [arena__free_block_chain(h, h[mb].next, TRUE) EXCEPT ![mb].next = NULL]
                   ELSE h
         IN  [a |-> [a EXCEPT !.current_block = mb, !.buffer = h1[mb].buffer,
                              !.capacity = h1[mb].capacity, !.offset = marker.offset],
              h |-> h1]
    ELSE [a |-> [a EXCEPT !.offset = marker.offset], h |-> h]

arena_reset_to(cfg, a, h, marker) ==
    IF ~a.initialized THEN [a |-> a, h |-> h]
    ELSE IF cfg.chaining /\ a.first_block # NULL /\ marker.block # NULL
    THEN LET mb == marker.block
             h1 == IF h[mb].next # NULL
                   THEN [arena__free_block_chain(h, h[mb].next, TRUE) EXCEPT ![mb].next = NULL]
                   ELSE h
             h2 == [h1 EXCEPT ![mb].offset = marker.offset]
         IN  [a |-> [a EXCEPT !.current_block = mb, !.buffer = h2[mb].buffer,
                              !.capacity = h2[mb].capacity, !.offset = marker.offset],
              h |-> h2]
    ELSE [a |-> [a EXCEPT !.offset = marker.offset], h |-> h]

\* arena_reset: [a, h]
arena_reset(cfg, a, h) ==
    IF ~a.initialized THEN [a |-> a, h |-> h]
    ELSE IF cfg.chaining /\ a.first_block # NULL
    THEN LET c  == Chain(h, a.first_block)
             h1 == [b \in DOMAIN h |-> IF b \in Range(c) THEN [h[b] EXCEPT !.offset = 0] ELSE h[b]]
         IN  [a |-> [a EXCEPT !.current_block = a.first_block,
                              !.buffer = h1[a.first_block].buffer,
                              !.capacity = h1[a.first_block].capacity,
                              !.offset = 0],
              h |-> h1]
    ELSE [a |-> [a EXCEPT !.offset = 0], h |-> h]

(***************************************************************************)
(* The arena's actions: one per call of the public interface.              *)
(***************************************************************************)
\* arena_check_integrity of the debug build
arena_check_integrity(cfg, a, h) ==
    /\ a.initialized
    /\ ~(a.offset > a.capacity)
    /\ (cfg.chaining /\ a.first_block # NULL) =>
          LET c == Chain(h, a.first_block)
          IN  \A i \in 1..Len(c) :
                 /\ h[c[i]].prev = (IF i = 1 THEN NULL ELSE c[i - 1])
                 /\ ~(h[c[i]].offset > h[c[i]].capacity)

nonArena == <<svars, pvars, lvars>>

\* the ARENA_DEBUG fields of a descriptor: of a build without ARENA_DEBUG
\* (on is false and nothing ever changes), and as arena_init and
\* arena_init_dynamic leave them.  records holds the records_count entries
\* in use, oldest first, each with the position (nth) its allocation has among
\* the caller's allocations; written is what the last call filled with
\* ARENA_POISON_FREED or ARENA_POISON_UNINIT: [blk, lo, hi) offsets of a region
ArenaDebugOff ==
    [on |-> FALSE, alloc_count |-> 0, total_requested |-> 0, peak_usage |-> 0,
     wasted_alignment |-> 0, sequence |-> 0, tracking |-> FALSE, records |-> <<>>,
     records_capacity |-> 0, written |-> {}]

ArenaDebugInit == [ArenaDebugOff EXCEPT !.on = TRUE]

\* the ARENA_DEBUG part of arena_save
arena_save_debug(a, h, nlive, d) ==
    [offset |-> a.offset, block |-> a.current_block,
     nlive |-> nlive, used |-> arena_used(a, h),
     alloc_count |-> d.alloc_count, total_requested |-> d.total_requested]

\* a variant that appends a record whatever records_count is
arena__alloc_debug_nolimit(d, a, r, size, nth) ==
    IF ~d.on \/ ~r.advanced THEN [d EXCEPT !.written = {}]
    ELSE LET aligned_offset == r.ret - r.a.buffer
             padding == aligned_offset
                            - (IF r.a.current_block # a.current_block THEN 0 ELSE a.offset)
             current_usage == arena_used(r.a, r.h)
             room == d.tracking
         IN  [d EXCEPT !.written = {[blk |-> r.a.current_block, lo |-> aligned_offset,
                                     hi |-> aligned_offset + size]},
                       !.alloc_count = (@ + 1) % (SIZE_MAX + 1),
                       !.total_requested = (@ + size) % (SIZE_MAX + 1),
                       !.wasted_alignment = (@ + padding) % (SIZE_MAX + 1),
                       !.peak_usage = IF current_usage > @ THEN current_usage ELSE @,
                       !.records = IF room
                                   THEN Append(@, [ptr |-> r.ret, size |-> size,
                                                   sequence |-> d.sequence, nth |-> nth])
                                   ELSE @,
                       !.sequence = IF room THEN @ + 1 ELSE @]

\* the ARENA_DEBUG part of arena__alloc, reached when memory of non-zero
\* size is returned (r is what arena__alloc made of the descriptor a)
arena__alloc_debug(d, a, r, size, nth) ==
    IF ~d.on \/ ~r.advanced THEN [d EXCEPT !.written = {}]
    ELSE LET aligned_offset == r.ret - r.a.buffer
             padding == aligned_offset
                            - (IF r.a.current_block # a.current_block THEN 0 ELSE a.offset)
             current_usage == arena_used(r.a, r.h)
             room == d.tracking /\ Len(d.records) < d.records_capacity
         IN  [d EXCEPT !.written = {[blk |-> r.a.current_block, lo |-> aligned_offset,
                                     hi |-> aligned_offset + size]},
                       !.alloc_count = (@ + 1) % (SIZE_MAX + 1),
                       !.total_requested = (@ + size) % (SIZE_MAX + 1),
                       !.wasted_alignment = (@ + padding) % (SIZE_MAX + 1),
                       !.peak_usage = IF current_usage > @ THEN current_usage ELSE @,
                       !.records = IF room
                                   THEN Append(@, [ptr |-> r.ret, size |-> size,
                                                   sequence |-> d.sequence, nth |-> nth])
                                   ELSE @,
                       !.sequence = IF room THEN @ + 1 ELSE @]

\* the ARENA_DEBUG part of arena_reset: every used prefix is filled, no
\* record is kept
arena_reset_debug(cfg, d, a, h) ==
    IF ~d.on \/ ~a.initialized THEN [d EXCEPT !.written = {}]
    ELSE [d EXCEPT !.records = <<>>,
                   !.written =
                       IF cfg.chaining /\ a.first_block # NULL
                       THEN {[blk |-> b, lo |-> 0, hi |-> h[b].offset] :
                                b \in {x \in Range(Chain(h, a.first_block)) : h[x].offset > 0}}
                       ELSE IF a.buffer # NULL /\ a.offset > 0
                       THEN {[blk |-> NULL, lo |-> 0, hi |-> a.offset]}
                       ELSE {}]

\* a variant that fills the marker's region from its start
arena_reset_to_written_whole(cfg, a, h, marker) ==
    IF ~a.initialized THEN {}
    ELSE IF cfg.chaining
    THEN IF a.first_block # NULL /\ marker.block # NULL
         THEN {[blk |-> marker.block, lo |-> 0, hi |-> h[marker.block].capacity]}
         ELSE {}
    ELSE IF a.offset > 0
    THEN {[blk |-> NULL, lo |-> 0, hi |-> a.offset]}
    ELSE {}

\* the bytes the ARENA_DEBUG build of arena_reset_to fills with
\* ARENA_POISON_FREED
arena_reset_to_written(cfg, a, h, marker) ==
    IF ~a.initialized THEN {}
    ELSE IF cfg.chaining
    THEN IF a.first_block # NULL /\ marker.block # NULL
            /\ marker.offset < h[marker.block].capacity
         THEN {[blk |-> marker.block, lo |-> marker.offset, hi |-> h[marker.block].capacity]}
         ELSE {}
    ELSE IF marker.offset < a.offset
    THEN {[blk |-> NULL, lo |-> marker.offset, hi |-> a.offset]}
    ELSE {}

\* the records arena_reset_to leaves: it drops the newest while its sequence
\* is not below the marker's alloc_count
RECURSIVE arena__pop_records(_, _)
arena__pop_records(records, alloc_count) ==
    IF Len(records) > 0 /\ records[Len(records)].sequence >= alloc_count
    THEN arena__pop_records(SubSeq(records, 1, Len(records) - 1), alloc_count)
    ELSE records

\* the ARENA_DEBUG part of arena_reset_to
arena_reset_to_debug(cfg, d, a, h, marker) ==
    IF ~d.on \/ ~a.initialized THEN [d EXCEPT !.written = {}]
    ELSE [d EXCEPT !.written = arena_reset_to_written(cfg, a, h, marker),
                   !.alloc_count = marker.alloc_count,
                   !.total_requested = marker.total_requested,
                   !.records = IF d.tracking
                               THEN arena__pop_records(@, marker.alloc_count)
                               ELSE @]

\* arena_enable_tracking(arena, max_records): [ok, d]; malloc_ok is whether
\* the record buffer could be allocated
arena_enable_tracking(a, d, max_records, malloc_ok) ==
    IF ~a.initialized THEN [ok |-> FALSE, d |-> d]
    ELSE IF max_records = 0
    THEN [ok |-> TRUE, d |-> [d EXCEPT !.tracking = FALSE, !.records_capacity = 0,
                                       !.records = <<>>, !.written = {}]]
    ELSE IF ~malloc_ok
    THEN [ok |-> FALSE, d |-> [d EXCEPT !.tracking = FALSE, !.written = {}]]
    ELSE [ok |-> TRUE, d |-> [d EXCEPT !.tracking = TRUE, !.records_capacity = max_records,
                                       !.records = <<>>, !.written = {}]]

\* the ARENA_DEBUG part of arena_destroy: the current region is filled, the
\* fields are zeroed with the descriptor
arena_destroy_debug(d, a) ==
    IF ~d.on \/ ~a.initialized THEN [d EXCEPT !.written = {}]
    ELSE [ArenaDebugInit EXCEPT
             !.written = IF a.buffer # NULL /\ a.capacity > 0
                         THEN {[blk |-> a.current_block, lo |-> 0, hi |-> a.capacity]}
                         ELSE {}]

\* what the caller sees of a call: the operation, the request (for an
\* allocation that returned memory of non-zero size) and the result
\* and by how many the outstanding blocks changed
ArenaEv(op, size, align, ret, h0, h1) ==
    [op |-> op, size |-> size, align |-> align, ret |-> ret,
     dblocks |-> Cardinality(DOMAIN h1) - Cardinality(DOMAIN h0)]

\* arena_alloc_aligned(arena, size, align); arena_alloc is the case
\* align = ARENA_DEFAULT_ALIGN
ArenaAlloc(size, align) ==
    LET r == arena__alloc(acfg, arena, heap, size, align)
    IN  /\ r.advanced => Len(alive) < MaxLive
        /\ arena' = r.a
        /\ heap' = r.h
        /\ alive' = IF r.advanced
                    THEN Append(alive, [blk |-> r.a.current_block, addr |-> r.ret,
                                        off |-> r.ret - r.a.buffer, size |-> size,
                                        align |-> align])
                    ELSE alive
        /\ aev' = IF r.advanced THEN ArenaEv("alloc", size, align, r.ret, heap, r.h)
                  ELSE ArenaEv("alloc", 0, 0, r.ret, heap, r.h)
        /\ (adbg.on /\ r.advanced) =>
               (adbg.alloc_count < MaxArenaAllocs /\ adbg.sequence < MaxArenaAllocs)
        /\ adbg' = arena__alloc_debug(adbg, arena, r, size, Len(alive) + 1)
        /\ UNCHANGED <<acfg, amarkers, nonArena>>

\* m = arena_save(arena); t = arena_temp_begin(arena) is the same call,
\* with the marker wrapped in an arena_temp_t
ArenaSave ==
    /\ Len(amarkers) < MaxMarkers
    /\ amarkers' = Append(amarkers, IF adbg.on
                                    THEN arena_save_debug(arena, heap, Len(alive), adbg)
                                    ELSE arena_save(arena, heap, Len(alive)))
    /\ aev' = ArenaEv("save", 0, 0, NULL, heap, heap)
    /\ adbg' = [adbg EXCEPT !.written = {}]
    /\ UNCHANGED <<acfg, arena, heap, alive, nonArena>>

\* arena_reset_to(arena, m) with a marker that is still valid; the markers
\* taken after m are no longer valid, m itself is
ArenaResetTo(i) ==
    /\ i \in 1..Len(amarkers)
    /\ LET r == arena_reset_to(acfg, arena, heap, amarkers[i])
       IN  /\ arena' = r.a
           /\ heap' = r.h
    /\ amarkers' = SubSeq(amarkers, 1, i)
    /\ alive' = SubSeq(alive, 1, amarkers[i].nlive)
    /\ aev' = ArenaEv("reset_to", 0, 0, NULL, heap, heap')
    /\ adbg' = arena_reset_to_debug(acfg, adbg, arena, heap, amarkers[i])
    /\ UNCHANGED <<acfg, nonArena>>

\* arena_temp_end(t): arena_reset_to(t.arena, t.marker), and t is spent
ArenaTempEnd(i) ==
    /\ i \in 1..Len(amarkers)
    /\ LET r == arena_reset_to(acfg, arena, heap, amarkers[i])
       IN  /\ arena' = r.a
           /\ heap' = r.h
    /\ amarkers' = SubSeq(amarkers, 1, i - 1)
    /\ alive' = SubSeq(alive, 1, amarkers[i].nlive)
    /\ aev' = ArenaEv("temp_end", 0, 0, NULL, heap, heap')
    /\ adbg' = arena_reset_to_debug(acfg, adbg, arena, heap, amarkers[i])
    /\ UNCHANGED <<acfg, nonArena>>

\* arena_reset(arena): every allocation and every marker is invalidated
ArenaReset ==
    /\ LET r == arena_reset(acfg, arena, heap)
       IN  /\ arena' = r.a
           /\ heap' = r.h
    /\ amarkers' = <<>>
    /\ alive' = <<>>
    /\ aev' = ArenaEv("reset", 0, 0, NULL, heap, heap')
    /\ adbg' = arena_reset_debug(acfg, adbg, arena, heap)
    /\ UNCHANGED <<acfg, nonArena>>

\* arena_enable_tracking(arena, max_records), of the ARENA_DEBUG build
ArenaEnableTracking(max_records, malloc_ok) ==
    LET r == arena_enable_tracking(arena, adbg, max_records, malloc_ok)
    IN  /\ adbg.on
        /\ adbg' = r.d
        /\ aev' = ArenaEv(IF r.ok THEN "enable_tracking" ELSE "enable_tracking_failed",
                          max_records, 0, NULL, heap, heap)
        /\ UNCHANGED <<acfg, arena, heap, amarkers, alive, nonArena>>

ArenaIdle ==
    /\ acfg = [chaining |-> FALSE, dynamic |-> FALSE]
    /\ arena = ArenaZero
    /\ heap = <<>>
    /\ amarkers = <<>>
    /\ alive = <<>>
    /\ aev = ArenaEv("none", 0, 0, NULL, <<>>, <<>>)
    /\ adbg = ArenaDebugOff

\* the arena right after arena_init over a caller's buffer, or after a
\* successful arena_init_dynamic
ArenaConstructed ==
    /\ amarkers = <<>>
    /\ alive = <<>>
    /\ aev = ArenaEv("init", 0, 0, NULL, <<>>, <<>>)
    /\ adbg = ArenaDebugOff
    /\ \/ \E chaining \in BOOLEAN, buffer \in ArenaBufAddrs, size \in ArenaBufSizes :
            /\ acfg = [chaining |-> chaining, dynamic |-> FALSE]
            /\ arena = arena_init(buffer, size)
            /\ heap = <<>>
       \/ \E chaining \in BOOLEAN :
            \* arena_init(&arena, NULL, 0): a null buffer passes with size 0
            /\ acfg = [chaining |-> chaining, dynamic |-> FALSE]
            /\ arena = arena_init(NULL, 0)
            /\ heap = <<>>
       \/ \E initial_size \in ArenaInitialSizes :
            LET r == arena_init_dynamic(initial_size)
            IN  /\ acfg = [chaining |-> TRUE, dynamic |-> TRUE]
                /\ arena = r.a
                /\ heap = r.h

ArenaNext ==
    \/ \E size \in ArenaSizes, align \in ArenaAligns :
          ArenaAlloc(size, align)
    \/ ArenaSave
    \/ \E i \in 1..MaxMarkers : ArenaResetTo(i)
    \/ \E i \in 1..MaxMarkers : ArenaTempEnd(i)
    \/ ArenaReset

\* the record buffer sizes arena_enable_tracking is called with
ArenaMaxRecords == {0, 1, 2}

\* the sizes an ARENA_DEBUG arena is asked for
ArenaDebugSizes == {16}

\* an arena right after arena_init or arena_init_dynamic, of a build with or
\* without ARENA_DEBUG
ArenaDebugConstructed ==
    /\ amarkers = <<>>
    /\ alive = <<>>
    /\ aev = ArenaEv("init", 0, 0, NULL, <<>>, <<>>)
    /\ adbg \in {ArenaDebugOff, ArenaDebugInit}
    /\ \/ \E chaining \in BOOLEAN, buffer \in {64}, size \in ArenaBufSizes :
            /\ acfg = [chaining |-> chaining, dynamic |-> FALSE]
            /\ arena = arena_init(buffer, size)
            /\ heap = <<>>
       \/ \E initial_size \in ArenaInitialSizes :
            LET r == arena_init_dynamic(initial_size)
            IN  /\ acfg = [chaining |-> TRUE, dynamic |-> TRUE]
                /\ arena = r.a
                /\ heap = r.h

ArenaDebugNext ==
    \/ \E size \in ArenaDebugSizes : ArenaAlloc(size, ARENA_DEFAULT_ALIGN)
    \/ ArenaSave
    \/ \E i \in 1..MaxMarkers : ArenaResetTo(i)
    \/ \E i \in 1..MaxMarkers : ArenaTempEnd(i)
    \/ ArenaReset
    \/ \E max_records \in ArenaMaxRecords, malloc_ok \in BOOLEAN :
          ArenaEnableTracking(max_records, malloc_ok)


(***************************************************************************)
(* Arena: the claims.                                                      *)
(***************************************************************************)
\* the region an allocation was made in: the caller's buffer (blk = NULL)
\* or a block of the chain
ArenaRegionExists(blk) == blk = NULL \/ blk \in DOMAIN heap

ArenaRegionBuffer(blk) == IF blk = NULL THEN arena.buffer ELSE heap[blk].buffer

ArenaRegionCapacity(blk) == IF blk = NULL THEN arena.capacity ELSE heap[blk].capacity

ArenaRegionOffset(blk) == IF blk = NULL THEN arena.offset ELSE heap[blk].offset

\* C1: the non-zero-size allocations not invalidated by arena_reset or
\* arena_reset_to occupy pairwise disjoint byte ranges, and each lies inside
\* [0, offset) of its region, with offset <= capacity.
C1_ArenaDisjointInBounds ==
    /\ \A i, j \in 1..Len(alive) :
          i < j => \/ alive[i].addr + alive[i].size <= alive[j].addr
                   \/ alive[j].addr + alive[j].size <= alive[i].addr
    /\ \A i \in 1..Len(alive) :
          LET r == alive[i]
          IN  /\ ArenaRegionExists(r.blk)
              /\ r.addr = ArenaRegionBuffer(r.blk) + r.off
              /\ r.off >= 0
              /\ r.off + r.size <= ArenaRegionOffset(r.blk)
              /\ ArenaRegionOffset(r.blk) <= ArenaRegionCapacity(r.blk)
              /\ (r.blk = arena.current_block) => r.off + r.size <= arena.offset
    /\ arena.offset <= arena.capacity

\* two live allocations in one region, the second one placed after
\* alignment padding
C1_Witness ==
    /\ Len(alive) = 2
    /\ alive[1].blk = alive[2].blk
    /\ alive[2].off > alive[1].off + alive[1].size
    /\ aev.op = "alloc" /\ aev.ret = alive[2].addr

\* C2: every successful allocation of non-zero size with power-of-two
\* alignment a returns an address p with p mod a = 0, whatever the base
\* address of the backing region.
C2_AllocAligned ==
    (aev.op = "alloc" /\ aev.size > 0 /\ aev.ret # NULL) => aev.ret % aev.align = 0

\* C3: arena_reset_to(m) and arena_temp_end restore arena_used to exactly
\* the value it had when the marker was captured, whatever allocations
\* (successful, failed, growing the chain) and nested markers came between.
C3_ResetToRestoresUsed ==
    [][ /\ aev'.op = "reset_to" =>
            arena_used(arena', heap') = amarkers[Len(amarkers')].used
        /\ aev'.op = "temp_end" =>
            arena_used(arena', heap') = amarkers[Len(amarkers') + 1].used ]_vars

\* an inner marker released by arena_temp_end after the arena had grown by
\* a block, which the rewind freed, with an outer marker still held
C3_Witness ==
    /\ aev.op = "temp_end"
    /\ aev.dblocks < 0
    /\ Len(amarkers) = 1
    /\ arena_used(arena, heap) > amarkers[1].used

(***************************************************************************)
(*                                STACK                                    *)
(*                                                                         *)
(* src/stack.h, in the release build and with STACK_DEBUG (with or without *)
(* STACK_VALIDATE_LIFO).  Every allocation is preceded by a header word    *)
(* holding the watermark from before it; smem holds the header words that  *)
(* are intact in the buffer, keyed by their offset.  A word written over   *)
(* part of another one destroys it, and so does poisoning or a caller's    *)
(* write over it.                                                          *)
(***************************************************************************)
STACK_MIN_ALIGNMENT == SizeofPtr

STACK_HEADER_SIZE == SizeofPtr

STACK_DEBUG_INITIAL_CAPACITY == 64

\* the caller's buffers: addresses (one aligned to 64, one odd) and length
StackBufAddrs == {128, 131}

StackBufSizes == {40}

StackSizes == {0, 1, 16, 32, SIZE_MAX}

StackAligns == {1, 8, 32}

nonStack == <<avars, pvars, lvars>>

stack__is_power_of_two(n) == IsPow2(n)

\* the memory after a word is stored at offset o
StoreWord(mem, o, v) ==
    [x \in {y \in DOMAIN mem : y + STACK_HEADER_SIZE <= o \/ o + STACK_HEADER_SIZE <= y} \cup {o}
        |-> IF x = o THEN v ELSE mem[x]]

\* the memory after the bytes [lo, hi) are overwritten with something else
Overwrite(mem, lo, hi) ==
    [x \in {y \in DOMAIN mem : y + STACK_HEADER_SIZE <= lo \/ hi <= y} |-> mem[x]]

StackZero ==
    [buffer |-> NULL, capacity |-> 0, offset |-> 0,
     alloc_stack |-> <<>>, alloc_count |-> 0, alloc_capacity |-> 0, peak_usage |-> 0]

\* stack_init over a non-null buffer of non-zero size (the debug build's
\* malloc of the pointer array succeeding)
stack_init(cfg, buffer, size) ==
    [StackZero EXCEPT !.buffer = buffer, !.capacity = size,
                      !.alloc_capacity = IF cfg.debug THEN STACK_DEBUG_INITIAL_CAPACITY ELSE 0]

\* stack__grow_alloc_stack: [ok, st]; rok says whether realloc succeeds
stack__grow_alloc_stack(st, rok) ==
    LET doubled      == (st.alloc_capacity * 2) % (SIZE_MAX + 1)
        new_capacity == IF doubled < STACK_DEBUG_INITIAL_CAPACITY
                        THEN STACK_DEBUG_INITIAL_CAPACITY ELSE doubled
    IN  IF ~rok THEN [ok |-> FALSE, st |-> st]
        ELSE [ok |-> TRUE, st |-> [st EXCEPT !.alloc_capacity = new_capacity]]

\* stack__debug_push: [ok, st].  Only the first alloc_count entries of the
\* pointer array are ever read, so alloc_stack holds just those.
stack__debug_push(st, ptr, rok) ==
    LET g  == IF st.alloc_count >= st.alloc_capacity
              THEN stack__grow_alloc_stack(st, rok)
              ELSE [ok |-> TRUE, st |-> st]
    IN  IF ~g.ok THEN [ok |-> FALSE, st |-> st]
        ELSE [ok |-> TRUE,
              st |-> [g.st EXCEPT !.alloc_stack = Append(SubSeq(g.st.alloc_stack, 1, g.st.alloc_count), ptr),
                                  !.alloc_count = g.st.alloc_count + 1]]

\* stack__debug_pop: [failed, st]; failed: a STACK_ASSERT did not hold
\* a variant that checks only that an allocation is outstanding
stack__debug_pop_count(cfg, st, ptr) ==
    IF st.alloc_count = 0 THEN [failed |-> cfg.validate_lifo, st |-> st]
    ELSE [failed |-> FALSE,
          st |-> [st EXCEPT !.alloc_count = st.alloc_count - 1,
                            !.alloc_stack = SubSeq(st.alloc_stack, 1, st.alloc_count - 1)]]

stack__debug_pop(cfg, st, ptr) ==
    IF cfg.validate_lifo
    THEN IF st.alloc_count = 0 \/ st.alloc_stack[st.alloc_count] # ptr
         THEN [failed |-> TRUE, st |-> st]
         ELSE [failed |-> FALSE,
               st |-> [st EXCEPT !.alloc_count = st.alloc_count - 1,
                                 !.alloc_stack = SubSeq(st.alloc_stack, 1, st.alloc_count - 1)]]
    ELSE IF st.alloc_count = 0 THEN [failed |-> FALSE, st |-> st]
         ELSE [failed |-> FALSE,
               st |-> [st EXCEPT !.alloc_count = st.alloc_count - 1,
                                 !.alloc_stack = SubSeq(st.alloc_stack, 1, st.alloc_count - 1)]]

\* a variant that leaves no room for the header word below the user address
stack__place_nohdr(st, prev_offset, size, alignment0) ==
    LET alignment           == IF alignment0 < STACK_MIN_ALIGNMENT THEN STACK_MIN_ALIGNMENT ELSE alignment0
        user_addr_unaligned == (st.buffer + prev_offset) % (SIZE_MAX + 1)
        user_addr_aligned   == AlignUpWord(user_addr_unaligned, alignment)
        user_offset         == (user_addr_aligned - st.buffer) % (SIZE_MAX + 1)
        end_offset          == (user_offset + size) % (SIZE_MAX + 1)
    IN  [ok |-> ~(end_offset < user_offset \/ end_offset > st.capacity),
         user_offset |-> user_offset, end_offset |-> end_offset]

\* a variant that aligns the offset in the buffer, not the address
stack__place_offset(st, prev_offset, size, alignment0) ==
    LET alignment   == IF alignment0 < STACK_MIN_ALIGNMENT THEN STACK_MIN_ALIGNMENT ELSE alignment0
        user_offset == AlignUpWord((prev_offset + STACK_HEADER_SIZE) % (SIZE_MAX + 1), alignment)
        end_offset  == (user_offset + size) % (SIZE_MAX + 1)
    IN  [ok |-> ~(end_offset < user_offset \/ end_offset > st.capacity),
         user_offset |-> user_offset, end_offset |-> end_offset]

\* where stack_alloc_aligned puts a request made at watermark prev_offset:
\* [ok, user_offset, end_offset]
stack__place(st, prev_offset, size, alignment0) ==
    LET alignment           == IF alignment0 < STACK_MIN_ALIGNMENT THEN STACK_MIN_ALIGNMENT ELSE alignment0
        user_addr_unaligned == (st.buffer + prev_offset + STACK_HEADER_SIZE) % (SIZE_MAX + 1)
        user_addr_aligned   == AlignUpWord(user_addr_unaligned, alignment)
        user_offset         == (user_addr_aligned - st.buffer) % (SIZE_MAX + 1)
        end_offset          == (user_offset + size) % (SIZE_MAX + 1)
    IN  [ok |-> ~(end_offset < user_offset \/ end_offset > st.capacity),
         user_offset |-> user_offset, end_offset |-> end_offset]

\* a variant that stores the user offset, not the previous watermark, in the header
stack_alloc_aligned_hdr(cfg, st, mem, size, alignment, rok) ==
    IF size = 0 THEN [ret |-> NULL, st |-> st, mem |-> mem]
    ELSE
    LET prev_offset == st.offset
        pl          == stack__place(st, prev_offset, size, alignment)
    IN  IF ~pl.ok THEN [ret |-> NULL, st |-> st, mem |-> mem]
        ELSE
        LET user_ptr == st.buffer + pl.user_offset
            mem1     == StoreWord(mem, pl.user_offset - STACK_HEADER_SIZE, pl.user_offset)
            st1      == [st EXCEPT !.offset = pl.end_offset]
        IN  IF cfg.debug
            THEN LET pu == stack__debug_push(st1, user_ptr, rok)
                 IN  IF ~pu.ok
                     THEN [ret |-> NULL, st |-> [st1 EXCEPT !.offset = prev_offset], mem |-> mem1]
                     ELSE [ret |-> user_ptr,
                           st  |-> [pu.st EXCEPT !.peak_usage = Max2(pu.st.peak_usage, pu.st.offset)],
                           mem |-> mem1]
            ELSE [ret |-> user_ptr, st |-> st1, mem |-> mem1]

\* a variant that leaves the watermark at the user offset when the request
\* does not fit
stack_alloc_aligned_partial(cfg, st, mem, size, alignment, rok) ==
    IF size = 0 THEN [ret |-> NULL, st |-> st, mem |-> mem]
    ELSE
    LET pl == stack__place(st, st.offset, size, alignment)
    IN  IF ~pl.ok
        THEN [ret |-> NULL, mem |-> mem,
              st  |-> [st EXCEPT !.offset = IF pl.user_offset <= st.capacity
                                            THEN pl.user_offset ELSE @]]
        ELSE stack_alloc_aligned_hdr(cfg, st,
                 StoreWord(mem, pl.user_offset - STACK_HEADER_SIZE, st.offset),
                 size, alignment, rok)

\* stack_alloc_aligned: [ret, st, mem]; stack_alloc is the case
\* alignment = STACK_MIN_ALIGNMENT
stack_alloc_aligned(cfg, st, mem, size, alignment, rok) ==
    IF size = 0 THEN [ret |-> NULL, st |-> st, mem |-> mem]
    ELSE
    LET prev_offset == st.offset
        pl          == stack__place(st, prev_offset, size, alignment)
    IN  IF ~pl.ok THEN [ret |-> NULL, st |-> st, mem |-> mem]
        ELSE
        LET user_ptr == st.buffer + pl.user_offset
            mem1     == StoreWord(mem, pl.user_offset - STACK_HEADER_SIZE, prev_offset)
            st1      == [st EXCEPT !.offset = pl.end_offset]
        IN  IF cfg.debug
            THEN LET pu == stack__debug_push(st1, user_ptr, rok)
                 IN  IF ~pu.ok
                     THEN [ret |-> NULL, st |-> [st1 EXCEPT !.offset = prev_offset], mem |-> mem1]
                     ELSE [ret |-> user_ptr,
                           st  |-> [pu.st EXCEPT !.peak_usage = Max2(pu.st.peak_usage, pu.st.offset)],
                           mem |-> mem1]
            ELSE [ret |-> user_ptr, st |-> st1, mem |-> mem1]

\* is the header word of ptr intact in memory
HeaderIntact(st, mem, ptr) == (ptr - st.buffer - STACK_HEADER_SIZE) \in DOMAIN mem

\* stack_free of a non-null ptr: [failed, st, mem].  junk is what the read
\* of the header word yields when no intact header is there.
stack_free(cfg, st, mem, ptr, junk) ==
    LET in_buffer   == ptr >= st.buffer /\ ptr < st.buffer + st.capacity
        pop         == IF cfg.debug THEN stack__debug_pop(cfg, st, ptr)
                       ELSE [failed |-> FALSE, st |-> st]
        prev_offset == IF HeaderIntact(st, mem, ptr)
                       THEN mem[ptr - st.buffer - STACK_HEADER_SIZE] ELSE junk
    IN  IF ~in_buffer \/ pop.failed \/ prev_offset > pop.st.offset
        THEN [failed |-> TRUE, st |-> st, mem |-> mem]
        ELSE [failed |-> FALSE,
              st  |-> [pop.st EXCEPT !.offset = prev_offset],
              mem |-> IF cfg.debug THEN Overwrite(mem, prev_offset, pop.st.offset) ELSE mem]

stack_save(st) == [offset |-> st.offset, alloc_count |-> st.alloc_count]

\* a variant that leaves the debug allocation count alone
stack_restore_count(cfg, st, mem, marker) ==
    [failed |-> FALSE, st |-> [st EXCEPT !.offset = marker.offset], mem |-> mem]

\* stack_restore: [failed, st, mem]
stack_restore(cfg, st, mem, marker) ==
    IF marker.offset > st.offset \/ marker.offset > st.capacity
       \/ (cfg.debug /\ marker.alloc_count > st.alloc_count)
    THEN [failed |-> TRUE, st |-> st, mem |-> mem]
    ELSE IF cfg.debug
    THEN [failed |-> FALSE,
          st  |-> [st EXCEPT !.offset = marker.offset,
                             !.alloc_count = marker.alloc_count,
                             !.alloc_stack = SubSeq(st.alloc_stack, 1, marker.alloc_count)],
          mem |-> IF st.offset > marker.offset
                  THEN Overwrite(mem, marker.offset, st.offset) ELSE mem]
    ELSE [failed |-> FALSE, st |-> [st EXCEPT !.offset = marker.offset], mem |-> mem]

\* stack_reset: [st, mem]
stack_reset(cfg, st, mem) ==
    IF cfg.debug
    THEN [st  |-> [st EXCEPT !.offset = 0, !.alloc_count = 0, !.alloc_stack = <<>>],
          mem |-> IF st.offset > 0 THEN Overwrite(mem, 0, st.offset) ELSE mem]
    ELSE [st |-> [st EXCEPT !.offset = 0], mem |-> mem]

stack_remaining(st) == IF st.offset >= st.capacity THEN 0 ELSE st.capacity - st.offset

\* stack_stats: the fields the claims read
stack_stats(st) ==
    [capacity |-> st.capacity, used |-> st.offset,
     remaining |-> (st.capacity - st.offset) % (SIZE_MAX + 1),
     allocation_count |-> st.alloc_count, peak_usage |-> st.peak_usage]

(***************************************************************************)
(* The stack's actions.  The caller keeps the LIFO contract: it frees only *)
(* its most recent live allocation, and restores only markers it has not   *)
(* rewound past.                                                           *)
(***************************************************************************)
StackEv(op, ptr, failed) == [op |-> op, ptr |-> ptr, failed |-> failed]

\* stack_alloc_aligned(stack, size, alignment)
StackAlloc(size, alignment, rok) ==
    LET r == stack_alloc_aligned(scfg, stack, smem, size, alignment, rok)
    IN  /\ stack' = r.st
        /\ smem' = r.mem
        /\ slive' = IF r.ret # NULL
                    THEN Append(slive, [addr |-> r.ret, off |-> r.ret - stack.buffer, size |-> size,
                                        align |-> alignment, prev |-> stack.offset])
                    ELSE slive
        /\ sev' = StackEv("alloc", r.ret, FALSE)
        /\ UNCHANGED <<scfg, smarkers, nonStack>>

\* stack_free(stack, p), p the caller's most recent live allocation
StackFree ==
    /\ slive # <<>>
    /\ LET top == slive[Len(slive)]
       IN  \E junk \in (IF HeaderIntact(stack, smem, top.addr) THEN {0} ELSE 0..stack.capacity) :
             LET r == stack_free(scfg, stack, smem, top.addr, junk)
             IN  /\ stack' = r.st
                 /\ smem' = r.mem
                 /\ sev' = StackEv("free", top.addr, r.failed)
    /\ slive' = SubSeq(slive, 1, Len(slive) - 1)
    /\ smarkers' = SelectSeq(smarkers, LAMBDA m : m.nlive <= Len(slive) - 1)
    /\ UNCHANGED <<scfg, nonStack>>

\* m = stack_save(stack)
StackSave ==
    /\ Len(smarkers) < MaxMarkers
    /\ smarkers' = Append(smarkers, [m |-> stack_save(stack), nlive |-> Len(slive)])
    /\ sev' = StackEv("save", NULL, FALSE)
    /\ UNCHANGED <<scfg, stack, smem, slive, nonStack>>

\* stack_restore(stack, m), m a marker that is still valid
StackRestore(i) ==
    /\ i \in 1..Len(smarkers)
    /\ LET r == stack_restore(scfg, stack, smem, smarkers[i].m)
       IN  /\ stack' = r.st
           /\ smem' = r.mem
           /\ sev' = StackEv("restore", NULL, r.failed)
    /\ slive' = SubSeq(slive, 1, smarkers[i].nlive)
    /\ smarkers' = SubSeq(smarkers, 1, i)
    /\ UNCHANGED <<scfg, nonStack>>

\* stack_reset(stack)
StackReset ==
    /\ LET r == stack_reset(scfg, stack, smem)
       IN  /\ stack' = r.st
           /\ smem' = r.mem
    /\ slive' = <<>>
    /\ smarkers' = <<>>
    /\ sev' = StackEv("reset", NULL, FALSE)
    /\ UNCHANGED <<scfg, nonStack>>

\* the caller writes all size bytes of one of its live allocations
StackWrite(k) ==
    /\ k \in 1..Len(slive)
    /\ smem' = Overwrite(smem, slive[k].off, slive[k].off + slive[k].size)
    /\ sev' = StackEv("write", NULL, FALSE)
    /\ UNCHANGED <<scfg, stack, slive, smarkers, nonStack>>

StackIdle ==
    /\ scfg = [debug |-> FALSE, validate_lifo |-> FALSE]
    /\ stack = StackZero
    /\ smem = <<>>
    /\ smarkers = <<>>
    /\ slive = <<>>
    /\ sev = StackEv("none", NULL, FALSE)

\* the stack right after a successful stack_init
StackConstructed ==
    /\ scfg \in {[debug |-> FALSE, validate_lifo |-> FALSE],
                 [debug |-> TRUE, validate_lifo |-> FALSE],
                 [debug |-> TRUE, validate_lifo |-> TRUE]}
    /\ \E buffer \in StackBufAddrs, size \in StackBufSizes : stack = stack_init(scfg, buffer, size)
    /\ smem = <<>>
    /\ smarkers = <<>>
    /\ slive = <<>>
    /\ sev = StackEv("init", NULL, FALSE)

StackNext ==
    \/ \E size \in StackSizes, alignment \in StackAligns :
          \E rok \in (IF scfg.debug /\ stack.alloc_count >= stack.alloc_capacity
                      THEN BOOLEAN ELSE {TRUE}) : StackAlloc(size, alignment, rok)
    \/ StackFree
    \/ StackSave
    \/ \E i \in 1..Len(smarkers) : StackRestore(i)
    \/ StackReset
    \/ \E k \in 1..Len(slive) : StackWrite(k)

\* stack_free(stack, p) of a build with STACK_VALIDATE_LIFO, p a live
\* allocation below the top one; a call that returns has released p and
\* everything above it
StackFreeBelow(k) ==
    /\ scfg.validate_lifo
    /\ k \in 1..(Len(slive) - 1)
    /\ \E junk \in (IF HeaderIntact(stack, smem, slive[k].addr) THEN {0} ELSE 0..stack.capacity) :
          LET r == stack_free(scfg, stack, smem, slive[k].addr, junk)
          IN  /\ stack' = r.st
              /\ smem' = r.mem
              /\ sev' = StackEv("free", slive[k].addr, r.failed)
              /\ slive' = IF r.failed THEN slive ELSE SubSeq(slive, 1, k - 1)
              /\ smarkers' = IF r.failed THEN smarkers
                             ELSE SelectSeq(smarkers, LAMBDA m : m.nlive <= k - 1)
    /\ UNCHANGED <<scfg, nonStack>>

\* the calls of a build with STACK_DEBUG and STACK_VALIDATE_LIFO, frees out
\* of order among them
StackLifoNext ==
    \/ StackNext
    \/ \E k \in 1..Len(slive) : StackFreeBelow(k)

(***************************************************************************)
(* C4: stack_free of the most recent live allocation puts the watermark    *)
(* back to its value from before that allocation, so that the same request *)
(* made again returns the same pointer; and once every allocation has been *)
(* freed in reverse order, used is 0 and remaining is the capacity.        *)
(***************************************************************************)
C4_FreeRestoresWatermark ==
    [][sev'.op = "free" =>
          LET top == slive[Len(slive)]
          IN  /\ ~sev'.failed
              /\ stack'.offset = top.prev
              /\ stack_alloc_aligned(scfg, stack', smem', top.size, top.align, TRUE).ret = top.addr
              /\ slive' = <<>> => /\ stack_stats(stack').used = 0
                                  /\ stack_stats(stack').remaining = stack'.capacity
                                  /\ stack_remaining(stack') = stack'.capacity]_vars

\* the second of two allocations, one that needed padding, has been freed
C4_Witness ==
    /\ sev.op = "free"
    /\ Len(slive) = 1
    /\ stack.offset = slive[1].off + slive[1].size
    /\ sev.ptr > stack.buffer + stack.offset + STACK_HEADER_SIZE

\* freeing, most recent first, the allocations of lv beyond the first n:
\* [failed, st, mem]
RECURSIVE FreeDown(_, _, _, _, _)
FreeDown(cfg, st, mem, lv, n) ==
    IF Len(lv) <= n THEN [failed |-> FALSE, st |-> st, mem |-> mem]
    ELSE LET top == lv[Len(lv)]
         IN  IF ~HeaderIntact(st, mem, top.addr) THEN [failed |-> TRUE, st |-> st, mem |-> mem]
             ELSE LET r == stack_free(cfg, st, mem, top.addr, 0)
                  IN  IF r.failed THEN r
                      ELSE FreeDown(cfg, r.st, r.mem, SubSeq(lv, 1, Len(lv) - 1), n)

(***************************************************************************)
(* C5: stack_restore(m) leaves the watermark and the debug build's         *)
(* allocation count as freeing, most recent first, every allocation made   *)
(* after m that is still live would leave them.                            *)
(***************************************************************************)
C5_RestoreIsLifoFrees ==
    [][sev'.op = "restore" =>
          LET m == smarkers[Len(smarkers')]
              f == FreeDown(scfg, stack, smem, slive, m.nlive)
          IN  /\ ~sev'.failed
              /\ ~f.failed
              /\ stack_stats(stack').used = stack_stats(f.st).used
              /\ stack_stats(stack').allocation_count = stack_stats(f.st).allocation_count]_vars

\* a debug-build restore that dropped allocations made after the marker,
\* below which another allocation is still live
C5_Witness ==
    /\ sev.op = "restore"
    /\ scfg.debug
    /\ Len(slive) = 1
    /\ stack.alloc_count = 1
    /\ stack.peak_usage > stack.offset + STACK_HEADER_SIZE
    /\ smarkers # <<>>
    /\ smarkers[Len(smarkers)].nlive = 1

(***************************************************************************)
(*                                 POOL                                    *)
(*                                                                         *)
(* src/pool.h, in the release build and with POOL_DEBUG (and a POOL_ASSERT *)
(* that lets the call return).  pmem is the content of the slots, by slot  *)
(* index: the first word, where a free slot keeps its next pointer, and    *)
(* what the word after it holds: the free magic, poison bytes, or the      *)
(* caller's data.                                                          *)
(***************************************************************************)
POOL_ALIGN == SizeofPtr

\* the (buffer address, buffer size, slot size) the pools are made with
PoolInits == {<<256, 56, 12>>, <<259, 56, 24>>, <<256, 24, 1>>}

\* the most pool_alloc calls between two resets of a debug pool, whose
\* total_allocs and total_frees count them
MaxPoolAllocs == 4

\* what a caller may store in the first word of its slot: no slot's address
PoolJunk == SIZE_MAX

nonPool == <<avars, svars, lvars>>

pool__align_up(value, alignment) == AlignUpWord(value, alignment)

pool__align_ptr(ptr, alignment) == AlignUpWord(ptr, alignment)

pool__slot_index(pl, ptr) == (ptr - pl.buffer) \div pl.slot_size

pool__slot_ptr(pl, index) == pl.buffer + index * pl.slot_size

pool__bitmap_set(pl, index) == [pl EXCEPT !.alloc_bitmap = @ \cup {index}]

pool__bitmap_clear(pl, index) == [pl EXCEPT !.alloc_bitmap = @ \ {index}]

pool__bitmap_get(pl, index) == index \in pl.alloc_bitmap

pool__has_free_magic(mem, index) == mem[index].word2 = "magic"

pool__write_free_magic(mem, index) == [mem EXCEPT ![index].word2 = "magic"]

\* poisons the slot from the second word on
pool__poison_slot(pl, mem, index) ==
    IF pl.slot_size > SizeofPtr THEN [mem EXCEPT ![index].word2 = "poison"] ELSE mem

\* one turn of the loop of pool__build_free_list, the one for slot i, which
\* finds the list's head at slot i + 1 (NULL for the last slot): the slot's
\* memory after it.  A turn writes no other slot.
pool__build_slot(cfg, pl, mem, i) ==
    LET head == IF i = pl.slot_count - 1 THEN NULL ELSE pool__slot_ptr(pl, i + 1)
        mem1 == [mem EXCEPT ![i].next = head]
        mem2 == IF cfg.debug /\ pl.slot_size >= 2 * SizeofPtr
                THEN pool__write_free_magic(mem1, i) ELSE mem1
        mem3 == IF cfg.debug THEN pool__poison_slot(pl, mem2, i) ELSE mem2
    IN  mem3[i]

\* a variant that threads the slots the other way: the last slot at the head
pool__build_free_list_forward(cfg, pl, mem) ==
    LET n == pl.slot_count
    IN  [pl  |-> [pl EXCEPT !.free_count = n,
                            !.free_list = IF n = 0 THEN NULL ELSE pool__slot_ptr(pl, n - 1),
                            !.alloc_bitmap = IF cfg.debug THEN @ \ (0..(n - 1)) ELSE @],
         mem |-> [i \in DOMAIN mem |->
                    IF i >= n THEN mem[i]
                    ELSE [pool__build_slot(cfg, pl, mem, i) EXCEPT
                             !.next = IF i = 0 THEN NULL ELSE pool__slot_ptr(pl, i - 1)]]]

\* pool__build_free_list: [pl, mem].  The loop runs from the last slot down
\* to slot 0, which ends up at the head; in the debug build each turn
\* clears the slot's bit.
pool__build_free_list(cfg, pl, mem) ==
    LET n == pl.slot_count
    IN  [pl  |-> [pl EXCEPT !.free_count = n,
                            !.free_list = IF n = 0 THEN NULL ELSE pool__slot_ptr(pl, 0),
                            !.alloc_bitmap = IF cfg.debug THEN @ \ (0..(n - 1)) ELSE @],
         mem |-> [i \in DOMAIN mem |->
                    IF i >= n THEN mem[i] ELSE pool__build_slot(cfg, pl, mem, i)]]

PoolZero ==
    [buffer |-> NULL, buffer_end |-> NULL, free_list |-> NULL, slot_size |-> 0,
     slot_count |-> 0, free_count |-> 0, alloc_bitmap |-> {}, bitmap_size |-> 0,
     total_allocs |-> 0, total_frees |-> 0, peak_used |-> 0, user_buffer |-> NULL]

\* pool_init over a non-null pool: [err, pl, mem]
pool_init(cfg, buffer, size, slot_size) ==
    LET fail(e) == [err |-> e, pl |-> PoolZero, mem |-> <<>>]
        e0   == pool__align_up(IF slot_size < SizeofPtr THEN SizeofPtr ELSE slot_size, POOL_ALIGN)
        min_debug_size == 2 * SizeofPtr
        effective_slot_size == IF cfg.debug /\ e0 < min_debug_size
                               THEN pool__align_up(min_debug_size, POOL_ALIGN) ELSE e0
        aligned_start == pool__align_ptr(buffer, POOL_ALIGN)
        alignment_overhead == (aligned_start - buffer) % (SIZE_MAX + 1)
        usable0 == size - alignment_overhead
        temp_slot_count == usable0 \div effective_slot_size
        bitmap_size == pool__align_up((temp_slot_count + 7) \div 8, POOL_ALIGN)
        usable_size == IF cfg.debug THEN usable0 - bitmap_size ELSE usable0
        slot_count == usable_size \div effective_slot_size
    IN  IF buffer = NULL THEN fail("POOL_ERR_NULL_BUFFER")
        ELSE IF slot_size = 0 THEN fail("POOL_ERR_INVALID_SLOT_SIZE")
        ELSE IF ~IsPow2(POOL_ALIGN) THEN fail("POOL_ERR_INVALID_ALIGNMENT")
        ELSE IF alignment_overhead >= size THEN fail("POOL_ERR_BUFFER_TOO_SMALL")
        ELSE IF effective_slot_size = 0 THEN fail("DIVISION_BY_ZERO")
        ELSE IF cfg.debug /\ usable0 <= bitmap_size THEN fail("POOL_ERR_BUFFER_TOO_SMALL")
        ELSE IF slot_count = 0 THEN fail("POOL_ERR_BUFFER_TOO_SMALL")
        ELSE LET pl == [PoolZero EXCEPT
                           !.buffer = aligned_start,
                           !.buffer_end = aligned_start + slot_count * effective_slot_size,
                           !.slot_size = effective_slot_size,
                           !.slot_count = slot_count,
                           !.bitmap_size = IF cfg.debug THEN bitmap_size ELSE 0,
                           !.user_buffer = IF cfg.debug THEN buffer ELSE NULL]
                 b  == pool__build_free_list(cfg, pl,
                          [i \in 0..(slot_count - 1) |-> [next |-> PoolJunk, word2 |-> "user"]])
             IN  [err |-> "POOL_OK", pl |-> b.pl, mem |-> b.mem]

pool_used(pl) == (pl.slot_count - pl.free_count) % (SIZE_MAX + 1)

pool_available(pl) == pl.free_count

\* a variant that does not look at the slot boundary
pool_owns_range(pl, ptr) ==
    /\ ptr # NULL
    /\ ~(ptr < pl.buffer \/ ptr >= pl.buffer_end)

pool_owns(pl, ptr) ==
    /\ ptr # NULL
    /\ ~(ptr < pl.buffer \/ ptr >= pl.buffer_end)
    /\ (ptr - pl.buffer) % pl.slot_size = 0

\* pool_is_allocated of the debug build
pool_is_allocated(pl, ptr) ==
    IF ptr = NULL THEN FALSE
    ELSE IF ~pool_owns(pl, ptr) THEN FALSE
    ELSE pool__bitmap_get(pl, pool__slot_index(pl, ptr))

\* a variant that leaves the slot's bit in the bitmap clear
pool_alloc_nobit(cfg, pl, mem) ==
    IF pl.free_list = NULL THEN [ret |-> NULL, pl |-> pl, failed |-> FALSE]
    ELSE LET slot  == pl.free_list
             index == pool__slot_index(pl, slot)
             pl1   == [pl EXCEPT !.free_list = mem[index].next,
                                 !.free_count = (pl.free_count - 1) % (SIZE_MAX + 1)]
             used  == pool_used(pl1)
         IN  IF ~cfg.debug THEN [ret |-> slot, pl |-> pl1, failed |-> FALSE]
             ELSE IF pool__bitmap_get(pl1, index) THEN [ret |-> NULL, pl |-> pl1, failed |-> TRUE]
             ELSE [ret |-> slot, failed |-> FALSE,
                   pl  |-> [pl1 EXCEPT
                               !.total_allocs = pl1.total_allocs + 1,
                               !.peak_used = IF used > pl1.peak_used THEN used ELSE pl1.peak_used]]

\* pool_alloc: [ret, pl, failed]; failed: the debug build's assertion did not hold
pool_alloc(cfg, pl, mem) ==
    IF pl.free_list = NULL THEN [ret |-> NULL, pl |-> pl, failed |-> FALSE]
    ELSE LET slot  == pl.free_list
             index == pool__slot_index(pl, slot)
             pl1   == [pl EXCEPT !.free_list = mem[index].next,
                                 !.free_count = (pl.free_count - 1) % (SIZE_MAX + 1)]
             used  == pool_used(pl1)
         IN  IF ~cfg.debug THEN [ret |-> slot, pl |-> pl1, failed |-> FALSE]
             ELSE IF pool__bitmap_get(pl1, index) THEN [ret |-> NULL, pl |-> pl1, failed |-> TRUE]
             ELSE [ret |-> slot, failed |-> FALSE,
                   pl  |-> [pool__bitmap_set(pl1, index) EXCEPT
                               !.total_allocs = pl1.total_allocs + 1,
                               !.peak_used = IF used > pl1.peak_used THEN used ELSE pl1.peak_used]]

\* a variant that does not count the freed slot
pool_free_nocount(cfg, pl, mem, ptr) ==
    IF ptr = NULL THEN [err |-> "POOL_ERR_NULL_PTR", pl |-> pl, mem |-> mem]
    ELSE IF ~pool_owns(pl, ptr) THEN [err |-> "POOL_ERR_INVALID_PTR", pl |-> pl, mem |-> mem]
    ELSE LET index == pool__slot_index(pl, ptr)
         IN  [err |-> "POOL_OK",
              pl  |-> [pl EXCEPT !.free_list = ptr, !.alloc_bitmap = @ \ {index}],
              mem |-> [mem EXCEPT ![index].next = pl.free_list]]

\* a variant that puts the freed slot behind the head of a non-empty list
pool_free_second(cfg, pl, mem, ptr) ==
    IF ptr = NULL THEN [err |-> "POOL_ERR_NULL_PTR", pl |-> pl, mem |-> mem]
    ELSE IF ~pool_owns(pl, ptr) THEN [err |-> "POOL_ERR_INVALID_PTR", pl |-> pl, mem |-> mem]
    ELSE IF pl.free_list = NULL THEN pool_free_nocount(cfg, [pl EXCEPT !.free_count = @ + 1], mem, ptr)
    ELSE LET index == pool__slot_index(pl, ptr)
             head  == pool__slot_index(pl, pl.free_list)
         IN  [err |-> "POOL_OK",
              pl  |-> [pl EXCEPT !.free_count = @ + 1, !.alloc_bitmap = @ \ {index}],
              mem |-> [mem EXCEPT ![index].next = mem[head].next, ![head].next = ptr]]

\* a variant that reports the double free the bitmap shows, but pushes the
\* slot all the same
pool_free_push(cfg, pl, mem, ptr) ==
    IF ptr = NULL THEN [err |-> "POOL_ERR_NULL_PTR", pl |-> pl, mem |-> mem]
    ELSE IF ~pool_owns(pl, ptr) THEN [err |-> "POOL_ERR_INVALID_PTR", pl |-> pl, mem |-> mem]
    ELSE
    LET index == pool__slot_index(pl, ptr)
        two   == pl.slot_size >= 2 * SizeofPtr
        mem1  == [mem EXCEPT ![index].next = pl.free_list]
        pl1   == [pl EXCEPT !.free_list = ptr, !.free_count = pl.free_count + 1]
    IN  IF ~cfg.debug THEN [err |-> "POOL_OK", pl |-> pl1, mem |-> mem1]
        ELSE IF ~pool__bitmap_get(pl, index)
        THEN [err |-> "POOL_ERR_DOUBLE_FREE", pl |-> pl1, mem |-> mem1]
        ELSE IF two /\ pool__has_free_magic(mem, index)
        THEN [err |-> "POOL_ERR_DOUBLE_FREE", pl |-> pl, mem |-> mem]
        ELSE [err |-> "POOL_OK",
              pl  |-> [pool__bitmap_clear(pl1, index) EXCEPT !.total_frees = pl.total_frees + 1],
              mem |-> IF two THEN pool__poison_slot(pl1, pool__write_free_magic(mem1, index), index)
                      ELSE mem1]

\* pool_free: [err, pl, mem]
pool_free(cfg, pl, mem, ptr) ==
    IF ptr = NULL THEN [err |-> "POOL_ERR_NULL_PTR", pl |-> pl, mem |-> mem]
    ELSE IF ~pool_owns(pl, ptr) THEN [err |-> "POOL_ERR_INVALID_PTR", pl |-> pl, mem |-> mem]
    ELSE
    LET index == pool__slot_index(pl, ptr)
        two   == pl.slot_size >= 2 * SizeofPtr
        mem1  == [mem EXCEPT ![index].next = pl.free_list]
        pl1   == [pl EXCEPT !.free_list = ptr, !.free_count = pl.free_count + 1]
    IN  IF ~cfg.debug THEN [err |-> "POOL_OK", pl |-> pl1, mem |-> mem1]
        ELSE IF ~pool__bitmap_get(pl, index)
        THEN [err |-> "POOL_ERR_DOUBLE_FREE", pl |-> pl, mem |-> mem]
        ELSE IF two /\ pool__has_free_magic(mem, index)
        THEN [err |-> "POOL_ERR_DOUBLE_FREE", pl |-> pl, mem |-> mem]
        ELSE [err |-> "POOL_OK",
              pl  |-> [pool__bitmap_clear(pl1, index) EXCEPT !.total_frees = pl.total_frees + 1],
              mem |-> IF two THEN pool__poison_slot(pl1, pool__write_free_magic(mem1, index), index)
                      ELSE mem1]

\* pool_reset: [pl, mem]
pool_reset(cfg, pl, mem) ==
    IF cfg.debug
    THEN pool__build_free_list(cfg, [pl EXCEPT !.alloc_bitmap = {}, !.total_allocs = 0,
                                               !.total_frees = 0, !.peak_used = 0], mem)
    ELSE pool__build_free_list(cfg, pl, mem)

pool_capacity(pl) == pl.slot_count

\* pool_required_size, in size_t arithmetic
pool_required_size(cfg, slot_size, slot_count) ==
    IF slot_size = 0 \/ slot_count = 0 THEN 0
    ELSE
    LET e0        == pool__align_up(IF slot_size < SizeofPtr THEN SizeofPtr ELSE slot_size, POOL_ALIGN)
        min_debug_size == 2 * SizeofPtr
        effective == IF cfg.debug /\ e0 < min_debug_size
                     THEN pool__align_up(min_debug_size, POOL_ALIGN) ELSE e0
        bitmap    == IF cfg.debug THEN pool__align_up((slot_count + 7) \div 8, POOL_ALIGN) ELSE 0
    IN  (slot_count * effective + bitmap + POOL_ALIGN - 1) % (SIZE_MAX + 1)

\* pool_destroy: the descriptor it leaves
pool_destroy(pl) == PoolZero

(***************************************************************************)
(* The pool's actions.  The caller of a release build frees no slot that   *)
(* is free already; any other pointer may be passed to pool_free.          *)
(***************************************************************************)
PoolEv(op, ret) == [op |-> op, ret |-> ret]

PoolSlots == {pool__slot_ptr(pool, i) : i \in 0..(pool.slot_count - 1)}

\* pool_alloc(pool)
PoolAlloc ==
    /\ pcfg.debug => pool.total_allocs < MaxPoolAllocs
    /\ LET r == pool_alloc(pcfg, pool, pmem)
       IN  /\ pool' = r.pl
           /\ pallocated' = IF r.ret # NULL THEN pallocated \cup {r.ret} ELSE pallocated
           /\ pev' = PoolEv("alloc", r.ret)
    /\ plast' = NULL
    /\ UNCHANGED <<pcfg, pmem, nonPool>>

\* pool_free(pool, ptr)
PoolFree(ptr) ==
    /\ pcfg.debug \/ ptr \notin PoolSlots \/ ptr \in pallocated
    /\ LET r == pool_free(pcfg, pool, pmem, ptr)
       IN  /\ pool' = r.pl
           /\ pmem' = r.mem
           /\ pallocated' = IF r.err = "POOL_OK" THEN pallocated \ {ptr} ELSE pallocated
           /\ plast' = IF r.err = "POOL_OK" THEN ptr ELSE plast
           /\ pev' = PoolEv("free", r.err)
    /\ UNCHANGED <<pcfg, nonPool>>

\* pool_free(NULL, ptr): the call made without a pool
PoolFreeNullPool ==
    /\ pev' = PoolEv("free", "POOL_ERR_NULL_POOL")
    /\ UNCHANGED <<pcfg, pool, pmem, pallocated, plast, nonPool>>

\* pool_reset(pool)
PoolReset ==
    /\ LET r == pool_reset(pcfg, pool, pmem)
       IN  /\ pool' = r.pl
           /\ pmem' = r.mem
    /\ pallocated' = {}
    /\ plast' = NULL
    /\ pev' = PoolEv("reset", NULL)
    /\ UNCHANGED <<pcfg, nonPool>>

\* the caller writes the first two words of a slot it holds
PoolWrite(ptr, v, w) ==
    /\ ptr \in pallocated
    /\ pmem' = [pmem EXCEPT ![pool__slot_index(pool, ptr)] =
                    [next |-> v, word2 |-> IF pool.slot_size >= 2 * SizeofPtr THEN w ELSE @.word2]]
    /\ pev' = PoolEv("write", NULL)
    /\ UNCHANGED <<pcfg, pool, pallocated, plast, nonPool>>

PoolIdle ==
    /\ pcfg = [debug |-> FALSE]
    /\ pool = PoolZero
    /\ pmem = <<>>
    /\ pallocated = {}
    /\ plast = NULL
    /\ pev = PoolEv("none", NULL)

\* a pool descriptor zeroed by its owner, of a release or of a debug build
PoolBlank ==
    /\ pcfg \in {[debug |-> FALSE], [debug |-> TRUE]}
    /\ pool = PoolZero
    /\ pmem = <<>>
    /\ pallocated = {}
    /\ plast = NULL
    /\ pev = PoolEv("none", NULL)

\* the slot sizes, the numbers of slots (up to MaxSlotCount) and the buffer
\* addresses a pool is sized for
PoolSlotSizes == {1, 24}

MaxSlotCount == 130

PoolBufAddrs == {256, 259}

\* pool_init(pool, buffer, pool_required_size(slot_size, slot_count),
\* slot_size) on a zeroed descriptor, the buffer lying in the address space
PoolInitSized(slot_size, slot_count, buffer) ==
    LET size == pool_required_size(pcfg, slot_size, slot_count)
        r    == pool_init(pcfg, buffer, size, slot_size)
    IN  /\ pool = PoolZero
        /\ buffer + size <= SIZE_MAX
        /\ pool' = r.pl
        /\ pmem' = r.mem
        /\ pallocated' = {}
        /\ plast' = NULL
        /\ pev' = [op |-> "init_sized", ret |-> r.err, slot_size |-> slot_size,
                   slot_count |-> slot_count, size |-> size]
        /\ UNCHANGED <<pcfg, nonPool>>

\* pool_destroy(pool); the buffer, untouched, goes back to its owner
PoolDestroy ==
    /\ pool # PoolZero
    /\ pool' = pool_destroy(pool)
    /\ pmem' = <<>>
    /\ pallocated' = {}
    /\ plast' = NULL
    /\ pev' = PoolEv("destroy", NULL)
    /\ UNCHANGED <<pcfg, nonPool>>

PoolLifeNext ==
    \/ \E slot_size \in PoolSlotSizes, slot_count \in 1..MaxSlotCount, buffer \in PoolBufAddrs :
          PoolInitSized(slot_size, slot_count, buffer)
    \/ PoolDestroy

\* the pointers the caller passes to pool_free: the slots, NULL, a pointer
\* inside a slot, the end of the slots and a pointer below the first slot
PoolFreePtrs ==
    PoolSlots \cup {NULL, pool.buffer + 1, pool.buffer_end, pool.buffer - SizeofPtr}

\* the pool right after a successful pool_init
PoolConstructed ==
    /\ pcfg \in {[debug |-> FALSE], [debug |-> TRUE]}
    /\ \E i \in PoolInits :
          LET r == pool_init(pcfg, i[1], i[2], i[3])
          IN  /\ r.err = "POOL_OK"
              /\ pool = r.pl
              /\ pmem = r.mem
    /\ pallocated = {}
    /\ plast = NULL
    /\ pev = PoolEv("init", NULL)

PoolNext ==
    \/ PoolAlloc
    \/ \E ptr \in PoolFreePtrs : PoolFree(ptr)
    \/ PoolFreeNullPool
    \/ PoolReset
    \/ \E ptr \in pallocated, w \in {"user", "magic"} : PoolWrite(ptr, PoolJunk, w)

\* the slots met following the next pointers from p, at most fuel of them,
\* ending with NULL if the walk reached the end of the list
RECURSIVE PoolWalk(_, _, _, _)
PoolWalk(pl, mem, p, fuel) ==
    IF p = NULL THEN <<NULL>>
    ELSE IF fuel = 0 \/ ~pool_owns(pl, p) THEN <<>>
    ELSE <<p>> \o PoolWalk(pl, mem, mem[pool__slot_index(pl, p)].next, fuel - 1)

PoolFreeList == PoolWalk(pool, pmem, pool.free_list, pool.slot_count + 1)

\* the free list of a descriptor over a memory, walked for at most n + 1 links
PoolListOf(pl, mem) == PoolWalk(pl, mem, pl.free_list, pl.slot_count + 1)

\* the free list ends in NULL, holds every slot that is not allocated once
\* and no other, and is counted by free_count
PoolListIntact ==
    LET w == PoolFreeList
        n == Len(w) - 1
    IN  /\ w # <<>> /\ w[Len(w)] = NULL
        /\ \A i, j \in 1..n : i # j => w[i] # w[j]
        /\ {w[i] : i \in 1..n} = PoolSlots \ pallocated
        /\ n = pool.free_count

\* pool_free(pool, p) of a release build, p a slot that is free already
PoolFreeAgain(ptr) ==
    /\ ~pcfg.debug
    /\ ptr \in PoolSlots \ pallocated
    /\ LET r == pool_free(pcfg, pool, pmem, ptr)
       IN  /\ pool' = r.pl
           /\ pmem' = r.mem
           /\ plast' = IF r.err = "POOL_OK" THEN ptr ELSE plast
           /\ pev' = PoolEv("free", r.err)
    /\ UNCHANGED <<pcfg, pallocated, nonPool>>

\* the calls of a release build whose caller frees a slot twice; after that
\* it allocates while pool_available is not 0, or resets the pool
PoolMisuseNext ==
    \/ PoolListIntact /\ PoolAlloc
    \/ PoolListIntact /\ \E ptr \in pallocated : PoolFree(ptr)
    \/ PoolListIntact /\ \E ptr \in PoolSlots : PoolFreeAgain(ptr)
    \/ ~PoolListIntact /\ pool_available(pool) > 0 /\ PoolAlloc
    \/ PoolReset

(***************************************************************************)
(* C6: the free list is acyclic and holds exactly the slots that are not   *)
(* allocated, each once; its length is free_count, which is slot_count     *)
(* less the number of allocated slots and lies in 0..slot_count.           *)
(***************************************************************************)
C6_PoolFreeListExact ==
    LET w == PoolFreeList
        n == Len(w) - 1
    IN  /\ w # <<>> /\ w[Len(w)] = NULL
        /\ \A i, j \in 1..n : i # j => w[i] # w[j]
        /\ {w[i] : i \in 1..n} = PoolSlots \ pallocated
        /\ n = pool.free_count
        /\ pool_available(pool) = pool.slot_count - Cardinality(pallocated)
        /\ pool_used(pool) = Cardinality(pallocated)
        /\ pool.free_count >= 0 /\ pool.free_count <= pool.slot_count

\* slots were allocated and freed in another order, and one is still held
C6_Witness ==
    /\ pev.op = "free"
    /\ pev.ret = "POOL_OK"
    /\ Cardinality(pallocated) = 1
    /\ pool.slot_count = 3
    /\ pool.free_list > pmem[pool__slot_index(pool, pool.free_list)].next

(***************************************************************************)
(* C7: the pool_alloc that follows a successful pool_free(p) returns p.    *)
(***************************************************************************)
C7_PoolLifoReuse ==
    [][(pev'.op = "alloc" /\ plast # NULL) => pev'.ret = plast]_vars

\* the slot just handed out again was freed onto a non-empty list and is
\* not the pool's first slot
C7_Witness ==
    /\ pev.op = "alloc"
    /\ pev.ret # NULL
    /\ pev.ret # pool.buffer
    /\ pool.free_list # NULL
    /\ pool.free_list < pev.ret

(***************************************************************************)
(*                                 SLAB                                    *)
(*                                                                         *)
(* src/slab.h, in the release build and with SLAB_DEBUG.  Class i of the   *)
(* code is classes[i + 1] here.  lmem is the first word of every slot, by  *)
(* the slot's address: the next pointer while the slot is free.  Poisoning *)
(* leaves that word alone, or is followed by rebuilding the list.          *)
(***************************************************************************)
SLAB_MAX_CLASSES == 16

SLAB_ALIGNMENT == 8

SLAB_MAGIC == 1397506370

SLAB_MIN_SLOT_SIZE == Max2(SizeofPtr, SLAB_ALIGNMENT)

\* (size_t)-1, the "no class" result of the two searches
SlabNoClass == SIZE_MAX

\* the (buffer address, buffer size, size list) the slabs are made with
SlabInits == {<<512, 48, <<16, 8>>>>, <<515, 56, <<24, SIZE_MAX>>>>, <<512, 16, <<1, 2>>>>}

SlabSizes == {0, 5, 9, SIZE_MAX}

\* the most slab_alloc calls a class of a debug slab serves, which its
\* alloc_count counts
MaxSlabAllocs == 3

\* what a caller may store in the first word of its slot
SlabJunk == SIZE_MAX

nonSlab == <<avars, svars, pvars>>

SLAB_ALIGN_UP(x, align) == AlignUpWord(x, align)

RECURSIVE slab__insert(_, _)
slab__insert(arr, key) ==
    IF arr = <<>> \/ ~(arr[Len(arr)] > key) THEN Append(arr, key)
    ELSE Append(slab__insert(SubSeq(arr, 1, Len(arr) - 1), key), arr[Len(arr)])

\* insertion sort, ascending
RECURSIVE slab__sort_sizes(_)
slab__sort_sizes(arr) ==
    IF Len(arr) <= 1 THEN arr
    ELSE slab__insert(slab__sort_sizes(SubSeq(arr, 1, Len(arr) - 1)), arr[Len(arr)])

RECURSIVE slab__find_size_from(_, _, _)
slab__find_size_from(sl, size, i) ==
    IF i >= sl.class_count THEN SlabNoClass
    ELSE IF sl.classes[i + 1].slot_size >= size THEN i
    ELSE slab__find_size_from(sl, size, i + 1)

slab__find_class_for_size(sl, size) == slab__find_size_from(sl, size, 0)

RECURSIVE slab__find_ptr_from(_, _, _)
slab__find_ptr_from(sl, ptr, i) ==
    IF i >= sl.class_count THEN SlabNoClass
    ELSE IF ptr >= sl.classes[i + 1].region_start /\ ptr < sl.classes[i + 1].region_end THEN i
    ELSE slab__find_ptr_from(sl, ptr, i + 1)

slab__find_class_for_ptr(sl, ptr) == slab__find_ptr_from(sl, ptr, 0)

slab__validate_ptr_in_class(cls, ptr) ==
    /\ ~(ptr < cls.region_start \/ ptr >= cls.region_end)
    /\ (ptr - cls.region_start) % cls.slot_size = 0

SlabClassSlots(cls) == {cls.region_start + i * cls.slot_size : i \in 0..(cls.slot_count - 1)}

\* slab__build_free_list: [cls, mem]
slab__build_free_list(cls, mem) ==
    LET slots == SlabClassSlots(cls)
        last  == cls.region_start + (cls.slot_count - 1) * cls.slot_size
    IN  [cls |-> [cls EXCEPT !.free_count = cls.slot_count,
                             !.free_list = IF cls.slot_count = 0 THEN NULL ELSE cls.region_start],
         mem |-> [a \in DOMAIN mem \cup slots |->
                     IF a \in slots THEN (IF a = last THEN NULL ELSE a + cls.slot_size)
                     ELSE mem[a]]]

SlabClassZero ==
    [slot_size |-> 0, free_list |-> NULL, region_start |-> NULL, region_end |-> NULL,
     slot_count |-> 0, free_count |-> 0, peak_used |-> 0, alloc_count |-> 0,
     free_count_total |-> 0]

SlabZero ==
    [buffer |-> NULL, aligned_start |-> NULL, capacity |-> 0, usable_capacity |-> 0,
     classes |-> <<>>, class_count |-> 0, initialized |-> 0]

\* the class loop with each sub-region starting where the slots of the one
\* before end
RECURSIVE slab__init_classes_packed(_, _, _, _, _, _)
slab__init_classes_packed(sl, mem, sorted_sizes, i, region_ptr, region_size) ==
    IF i >= Len(sorted_sizes) THEN [err |-> "SLAB_OK", sl |-> sl, mem |-> mem]
    ELSE LET aligned_slot_size == Max2(SLAB_ALIGN_UP(sorted_sizes[i + 1], SLAB_ALIGNMENT),
                                       SLAB_MIN_SLOT_SIZE)
             slots == region_size \div aligned_slot_size
             cls   == [SlabClassZero EXCEPT
                          !.slot_size = aligned_slot_size,
                          !.region_start = region_ptr,
                          !.slot_count = slots,
                          !.region_end = region_ptr + slots * aligned_slot_size]
             b     == slab__build_free_list(cls, mem)
         IN  IF slots = 0 THEN [err |-> "SLAB_ERR_BUFFER_SMALL", sl |-> SlabZero, mem |-> mem]
             ELSE slab__init_classes_packed([sl EXCEPT !.classes = Append(sl.classes, b.cls)],
                                            b.mem, sorted_sizes, i + 1,
                                            region_ptr + slots * aligned_slot_size, region_size)

\* the loop of slab_init over the classes from class i on: [err, sl, mem]
RECURSIVE slab__init_classes(_, _, _, _, _, _)
slab__init_classes(sl, mem, sorted_sizes, i, region_ptr, region_size) ==
    IF i >= Len(sorted_sizes) THEN [err |-> "SLAB_OK", sl |-> sl, mem |-> mem]
    ELSE LET aligned_slot_size == Max2(SLAB_ALIGN_UP(sorted_sizes[i + 1], SLAB_ALIGNMENT),
                                       SLAB_MIN_SLOT_SIZE)
             slots == region_size \div aligned_slot_size
             cls   == [SlabClassZero EXCEPT
                          !.slot_size = aligned_slot_size,
                          !.region_start = region_ptr,
                          !.slot_count = slots,
                          !.region_end = region_ptr + slots * aligned_slot_size]
             b     == slab__build_free_list(cls, mem)
         IN  IF slots = 0 THEN [err |-> "SLAB_ERR_BUFFER_SMALL", sl |-> SlabZero, mem |-> mem]
             ELSE slab__init_classes([sl EXCEPT !.classes = Append(sl.classes, b.cls)], b.mem,
                                     sorted_sizes, i + 1, region_ptr + region_size, region_size)

\* slab_init over non-null arguments: [err, sl, mem]
\* a variant that initializes an initialized descriptor again
slab_init_again(sl, mem, buffer, size, sizes) ==
    LET count          == Len(sizes)
        sorted_sizes   == slab__sort_sizes(sizes)
        alignment_loss == (SLAB_ALIGN_UP(buffer, SLAB_ALIGNMENT) - buffer) % (SIZE_MAX + 1)
        sl1 == [sl EXCEPT !.buffer = buffer, !.capacity = size]
        sl2 == [sl1 EXCEPT !.aligned_start = buffer + alignment_loss,
                           !.usable_capacity = size - alignment_loss,
                           !.class_count = count,
                           !.classes = <<>>]
        region_size == ((sl2.usable_capacity \div count) \div SLAB_ALIGNMENT) * SLAB_ALIGNMENT
        r == slab__init_classes(sl2, mem, sorted_sizes, 0, sl2.aligned_start, region_size)
    IN  IF size = 0 \/ count = 0 THEN [err |-> "SLAB_ERR_ZERO_SIZE", sl |-> sl, mem |-> mem]
        ELSE IF count > SLAB_MAX_CLASSES THEN [err |-> "SLAB_ERR_TOO_MANY", sl |-> sl, mem |-> mem]
        ELSE IF \E i \in 1..count : sizes[i] = 0
        THEN [err |-> "SLAB_ERR_INVALID_SIZE", sl |-> sl, mem |-> mem]
        ELSE IF \E i \in 2..count : sorted_sizes[i] = sorted_sizes[i - 1]
        THEN [err |-> "SLAB_ERR_INVALID_SIZE", sl |-> sl, mem |-> mem]
        ELSE IF alignment_loss >= size
        THEN [err |-> "SLAB_ERR_BUFFER_SMALL", sl |-> sl1, mem |-> mem]
        ELSE IF region_size < SLAB_ALIGNMENT
        THEN [err |-> "SLAB_ERR_BUFFER_SMALL", sl |-> [sl2 EXCEPT !.classes = sl.classes], mem |-> mem]
        ELSE IF r.err # "SLAB_OK" THEN r
        ELSE [err |-> "SLAB_OK", sl |-> [r.sl EXCEPT !.initialized = SLAB_MAGIC], mem |-> r.mem]

slab_init(sl, mem, buffer, size, sizes) ==
    LET count          == Len(sizes)
        sorted_sizes   == slab__sort_sizes(sizes)
        alignment_loss == (SLAB_ALIGN_UP(buffer, SLAB_ALIGNMENT) - buffer) % (SIZE_MAX + 1)
        sl1 == [sl EXCEPT !.buffer = buffer, !.capacity = size]
        sl2 == [sl1 EXCEPT !.aligned_start = buffer + alignment_loss,
                           !.usable_capacity = size - alignment_loss,
                           !.class_count = count,
                           !.classes = <<>>]
        region_size == ((sl2.usable_capacity \div count) \div SLAB_ALIGNMENT) * SLAB_ALIGNMENT
        r == slab__init_classes(sl2, mem, sorted_sizes, 0, sl2.aligned_start, region_size)
    IN  IF size = 0 \/ count = 0 THEN [err |-> "SLAB_ERR_ZERO_SIZE", sl |-> sl, mem |-> mem]
        ELSE IF count > SLAB_MAX_CLASSES THEN [err |-> "SLAB_ERR_TOO_MANY", sl |-> sl, mem |-> mem]
        ELSE IF sl.initialized = SLAB_MAGIC
        THEN [err |-> "SLAB_ERR_ALREADY_INIT", sl |-> sl, mem |-> mem]
        ELSE IF \E i \in 1..count : sizes[i] = 0
        THEN [err |-> "SLAB_ERR_INVALID_SIZE", sl |-> sl, mem |-> mem]
        ELSE IF \E i \in 2..count : sorted_sizes[i] = sorted_sizes[i - 1]
        THEN [err |-> "SLAB_ERR_INVALID_SIZE", sl |-> sl, mem |-> mem]
        ELSE IF alignment_loss >= size
        THEN [err |-> "SLAB_ERR_BUFFER_SMALL", sl |-> sl1, mem |-> mem]
        ELSE IF region_size < SLAB_ALIGNMENT
        THEN [err |-> "SLAB_ERR_BUFFER_SMALL", sl |-> [sl2 EXCEPT !.classes = sl.classes], mem |-> mem]
        ELSE IF r.err # "SLAB_OK" THEN r
        ELSE [err |-> "SLAB_OK", sl |-> [r.sl EXCEPT !.initialized = SLAB_MAGIC], mem |-> r.mem]

\* slab_alloc: [ret, sl]
slab_alloc(cfg, sl, mem, size) ==
    LET class_idx == slab__find_class_for_size(sl, size)
    IN  IF sl.initialized # SLAB_MAGIC \/ size = 0 THEN [ret |-> NULL, sl |-> sl]
        ELSE IF class_idx = SlabNoClass THEN [ret |-> NULL, sl |-> sl]
        ELSE LET cls  == sl.classes[class_idx + 1]
                 cls1 == [cls EXCEPT !.free_list = mem[cls.free_list],
                                     !.free_count = (cls.free_count - 1) % (SIZE_MAX + 1)]
                 used == (cls1.slot_count - cls1.free_count) % (SIZE_MAX + 1)
                 cls2 == IF cfg.debug
                         THEN [cls1 EXCEPT !.peak_used = IF used > @ THEN used ELSE @,
                                           !.alloc_count = @ + 1]
                         ELSE cls1
             IN  IF cls.free_list = NULL THEN [ret |-> NULL, sl |-> sl]
                 ELSE [ret |-> cls.free_list, sl |-> [sl EXCEPT !.classes[class_idx + 1] = cls2]]

\* a variant that gives the slot to the first class, whichever class it is in
slab_free_first(cfg, sl, mem, ptr) ==
    LET cls == sl.classes[1]
    IN  IF ptr = NULL \/ slab__find_class_for_ptr(sl, ptr) = SlabNoClass
        THEN [ok |-> FALSE, sl |-> sl, mem |-> mem]
        ELSE [ok |-> TRUE,
              sl |-> [sl EXCEPT !.classes[1] = [cls EXCEPT !.free_list = ptr, !.free_count = @ + 1]],
              mem |-> [mem EXCEPT ![ptr] = cls.free_list]]

\* slab_free: [ok, sl, mem]; ok: the pointer was taken back
slab_free(cfg, sl, mem, ptr) ==
    LET class_idx == slab__find_class_for_ptr(sl, ptr)
        rejected  == [ok |-> FALSE, sl |-> sl, mem |-> mem]
    IN  IF ptr = NULL THEN rejected
        ELSE IF sl.initialized # SLAB_MAGIC THEN rejected
        ELSE IF class_idx = SlabNoClass THEN rejected
        ELSE LET cls  == sl.classes[class_idx + 1]
                 cls1 == IF cfg.debug THEN [cls EXCEPT !.free_count_total = @ + 1] ELSE cls
                 cls2 == [cls1 EXCEPT !.free_list = ptr, !.free_count = cls.free_count + 1]
             IN  IF ~slab__validate_ptr_in_class(cls, ptr) THEN rejected
                 ELSE [ok |-> TRUE,
                       sl |-> [sl EXCEPT !.classes[class_idx + 1] = cls2],
                       mem |-> [mem EXCEPT ![ptr] = cls.free_list]]

\* the loop of slab_reset over the classes from class i on: [sl, mem]
RECURSIVE slab__reset_from(_, _, _, _)
slab__reset_from(cfg, sl, mem, i) ==
    IF i >= sl.class_count THEN [sl |-> sl, mem |-> mem]
    ELSE LET b   == slab__build_free_list(sl.classes[i + 1], mem)
             cls == IF cfg.debug THEN [b.cls EXCEPT !.peak_used = 0] ELSE b.cls
         IN  slab__reset_from(cfg, [sl EXCEPT !.classes[i + 1] = cls], b.mem, i + 1)

slab_reset(cfg, sl, mem) ==
    IF sl.initialized # SLAB_MAGIC THEN [sl |-> sl, mem |-> mem]
    ELSE slab__reset_from(cfg, sl, mem, 0)

\* slab_destroy: the descriptor it leaves
slab_destroy(sl) == IF sl.initialized # SLAB_MAGIC THEN sl ELSE SlabZero

slab_class_count(sl) == IF sl.initialized # SLAB_MAGIC THEN 0 ELSE sl.class_count

slab_class_slot_size(sl, class_index) ==
    IF sl.initialized # SLAB_MAGIC THEN 0
    ELSE IF class_index >= sl.class_count THEN 0
    ELSE sl.classes[class_index + 1].slot_size

\* the largest of the slot sizes slab_buffer_size_needed computes for sizes
SlabMaxAligned(sizes) ==
    LET aligned(i) == Max2(SLAB_ALIGN_UP(sizes[i], SLAB_ALIGNMENT), SLAB_MIN_SLOT_SIZE)
    IN  CHOOSE m \in {aligned(i) : i \in 1..Len(sizes)} :
           \A i \in 1..Len(sizes) : aligned(i) <= m

\* a variant without the allowance for aligning the buffer's address
slab_buffer_size_needed_noslack(sizes, min_slots_each) ==
    LET count        == Len(sizes)
        slots_needed == IF min_slots_each = 0 THEN 1 ELSE min_slots_each
        region_size_needed ==
            SLAB_ALIGN_UP((SlabMaxAligned(sizes) * slots_needed) % (SIZE_MAX + 1), SLAB_ALIGNMENT)
    IN  IF count = 0 \/ count > SLAB_MAX_CLASSES THEN 0
        ELSE IF \E i \in 1..count : sizes[i] = 0 THEN 0
        ELSE IF region_size_needed > SIZE_MAX \div count THEN 0
        ELSE (region_size_needed * count) % (SIZE_MAX + 1)

\* slab_buffer_size_needed over a non-null list, in size_t arithmetic
slab_buffer_size_needed(sizes, min_slots_each) ==
    LET count        == Len(sizes)
        slots_needed == IF min_slots_each = 0 THEN 1 ELSE min_slots_each
        region_size_needed ==
            SLAB_ALIGN_UP((SlabMaxAligned(sizes) * slots_needed) % (SIZE_MAX + 1), SLAB_ALIGNMENT)
    IN  IF count = 0 \/ count > SLAB_MAX_CLASSES THEN 0
        ELSE IF \E i \in 1..count : sizes[i] = 0 THEN 0
        ELSE IF region_size_needed > SIZE_MAX \div count THEN 0
        ELSE (region_size_needed * count + SLAB_ALIGNMENT - 1) % (SIZE_MAX + 1)

slab_owns(sl, ptr) ==
    IF sl.initialized # SLAB_MAGIC \/ ptr = NULL THEN FALSE
    ELSE slab__find_class_for_ptr(sl, ptr) # SlabNoClass

slab_usable_size(sl, ptr) ==
    LET class_idx == slab__find_class_for_ptr(sl, ptr)
    IN  IF sl.initialized # SLAB_MAGIC \/ ptr = NULL THEN 0
        ELSE IF class_idx = SlabNoClass THEN 0
        ELSE sl.classes[class_idx + 1].slot_size

slab_max_alloc(sl) ==
    IF sl.initialized # SLAB_MAGIC \/ sl.class_count = 0 THEN 0
    ELSE sl.classes[sl.class_count].slot_size

(***************************************************************************)
(* The slab's actions.  The caller frees no slot that is free already; any *)
(* other pointer may be passed to slab_free.                               *)
(***************************************************************************)
SlabEv(op, size, ptr, ok) == [op |-> op, size |-> size, ptr |-> ptr, ok |-> ok]

SlabSlots == UNION {SlabClassSlots(slab.classes[c]) : c \in 1..slab.class_count}

\* slab_alloc(slab, size)
SlabAlloc(size) ==
    /\ LET c == slab__find_class_for_size(slab, size)
       IN  (lcfg.debug /\ c # SlabNoClass) => slab.classes[c + 1].alloc_count < MaxSlabAllocs
    /\ LET r == slab_alloc(lcfg, slab, lmem, size)
       IN  /\ slab' = r.sl
           /\ lallocated' = IF r.ret # NULL THEN lallocated \cup {r.ret} ELSE lallocated
           /\ lev' = SlabEv("alloc", size, r.ret, r.ret # NULL)
    /\ UNCHANGED <<lcfg, lmem, nonSlab>>

\* slab_free(slab, ptr)
SlabFree(ptr) ==
    /\ ptr \in SlabSlots => ptr \in lallocated
    /\ LET r == slab_free(lcfg, slab, lmem, ptr)
       IN  /\ slab' = r.sl
           /\ lmem' = r.mem
           /\ lallocated' = IF r.ok THEN lallocated \ {ptr} ELSE lallocated
           /\ lev' = SlabEv("free", 0, ptr, r.ok)
    /\ UNCHANGED <<lcfg, nonSlab>>

\* slab_reset(slab)
SlabReset ==
    /\ LET r == slab_reset(lcfg, slab, lmem)
       IN  /\ slab' = r.sl
           /\ lmem' = r.mem
    /\ lallocated' = {}
    /\ lev' = SlabEv("reset", 0, NULL, TRUE)
    /\ UNCHANGED <<lcfg, nonSlab>>

\* the caller writes the first word of a slot it holds
SlabWrite(ptr) ==
    /\ ptr \in lallocated
    /\ lmem' = [lmem EXCEPT ![ptr] = SlabJunk]
    /\ lev' = SlabEv("write", 0, NULL, TRUE)
    /\ UNCHANGED <<lcfg, slab, lallocated, nonSlab>>

SlabIdle ==
    /\ lcfg = [debug |-> FALSE]
    /\ slab = SlabZero
    /\ lmem = <<>>
    /\ lallocated = {}
    /\ lev = SlabEv("none", 0, NULL, TRUE)

\* a slab descriptor zeroed by its owner, of a release or of a debug build
SlabBlank ==
    /\ lcfg \in {[debug |-> FALSE], [debug |-> TRUE]}
    /\ slab = SlabZero
    /\ lmem = <<>>
    /\ lallocated = {}
    /\ lev = SlabEv("none", 0, NULL, TRUE)

\* the slots of a descriptor, none unless it is initialized
SlabSlotsOf(sl) ==
    IF sl.initialized # SLAB_MAGIC THEN {}
    ELSE UNION {SlabClassSlots(sl.classes[c]) : c \in 1..sl.class_count}

\* the free-list words a descriptor can reach: those of its slots
SlabReachable(sl, mem) == [a \in DOMAIN mem \cap SlabSlotsOf(sl) |-> mem[a]]

\* what the caller sees of a slab_init: the arguments, and the error code
SlabInitEv(op, buffer, size, sizes, k, err) ==
    [op |-> op, size |-> size, ptr |-> buffer, ok |-> err = "SLAB_OK",
     err |-> err, sizes |-> sizes, k |-> k]

\* the (buffer address, buffer size, size list) slab_init is called with,
\* accepted or refused
SlabInitArgs ==
    {<<512, 48, <<16, 8>>>>, <<515, 56, <<24, SIZE_MAX>>>>, <<512, 16, <<1, 2>>>>,
     <<512, 48, <<8, 8>>>>, <<512, 48, <<9, 16>>>>, <<512, 48, <<0, 8>>>>,
     <<512, 0, <<8>>>>, <<512, 48, <<>>>>, <<515, 3, <<8>>>>, <<512, 12, <<8, 16>>>>,
     <<512, 16, <<8, 16>>>>, <<512, 48, [i \in 1..(SLAB_MAX_CLASSES + 1) |-> 8 * i]>>}

\* the size lists, the numbers of slots and the buffer addresses a slab is
\* sized for
SlabSizedLists == {<<16, 8>>, <<1>>, <<24, 9, 40>>, <<(SIZE_MAX + 1) \div 2>>}

MaxSlotsEach == 3

SlabBufAddrs == {512, 515}

\* slab_init(slab, buffer, size, sizes, count); whatever the descriptor can
\* no longer reach is dropped from lmem
SlabInit(buffer, size, sizes) ==
    LET r == slab_init(slab, lmem, buffer, size, sizes)
    IN  /\ slab' = r.sl
        /\ lmem' = SlabReachable(r.sl, r.mem)
        /\ lallocated' = IF r.err = "SLAB_OK" THEN {} ELSE lallocated
        /\ lev' = SlabInitEv("init", buffer, size, sizes, 0, r.err)
        /\ UNCHANGED <<lcfg, nonSlab>>

\* slab_init over a buffer of slab_buffer_size_needed(sizes, count, k)
\* bytes, the buffer lying in the address space
SlabInitSized(sizes, k, buffer) ==
    LET size == slab_buffer_size_needed(sizes, k)
        r    == slab_init(slab, lmem, buffer, size, sizes)
    IN  /\ slab.initialized # SLAB_MAGIC
        /\ buffer + size <= SIZE_MAX
        /\ slab' = r.sl
        /\ lmem' = SlabReachable(r.sl, r.mem)
        /\ lallocated' = {}
        /\ lev' = SlabInitEv("init_sized", buffer, size, sizes, k, r.err)
        /\ UNCHANGED <<lcfg, nonSlab>>

\* slab_destroy(slab)
SlabDestroy ==
    /\ slab' = slab_destroy(slab)
    /\ lmem' = SlabReachable(slab', lmem)
    /\ lallocated' = {}
    /\ lev' = SlabEv("destroy", 0, NULL, TRUE)
    /\ UNCHANGED <<lcfg, nonSlab>>

SlabLifeNext ==
    \/ \E a \in SlabInitArgs : SlabInit(a[1], a[2], a[3])
    \/ \E sizes \in SlabSizedLists, k \in 0..MaxSlotsEach, buffer \in SlabBufAddrs :
          SlabInitSized(sizes, k, buffer)
    \/ SlabDestroy
    \/ \E size \in SlabSizes : slab.initialized = SLAB_MAGIC /\ SlabAlloc(size)

\* arena_is_valid
arena_is_valid(a) == a.initialized /\ ~(a.offset > a.capacity)

\* a variant that leaves the descriptor as it is
arena_destroy_keep(cfg, a, h) == [a |-> a, h |-> h]

\* arena_destroy: the descriptor and the heap it leaves
arena_destroy(cfg, a, h) ==
    IF ~a.initialized THEN [a |-> a, h |-> h]
    ELSE [a |-> ArenaZero,
          h |-> IF cfg.chaining /\ a.first_block # NULL
                THEN arena__free_block_chain(h, a.first_block, a.owns_first)
                ELSE h]

\* an arena descriptor zeroed by its owner: of a build without chaining, or
\* of a chaining build and meant for arena_init or for arena_init_dynamic
ArenaBlank ==
    /\ acfg \in {[chaining |-> FALSE, dynamic |-> FALSE], [chaining |-> TRUE, dynamic |-> FALSE],
                 [chaining |-> TRUE, dynamic |-> TRUE]}
    /\ arena = ArenaZero
    /\ heap = <<>>
    /\ amarkers = <<>>
    /\ alive = <<>>
    /\ aev = ArenaEv("none", 0, 0, NULL, <<>>, <<>>)
    /\ adbg = ArenaDebugOff

\* the (buffer, size) arena_init is called with, and the initial sizes
\* arena_init_dynamic is called with
ArenaInitArgs == {<<64, 40>>, <<NULL, 0>>, <<NULL, 40>>}

ArenaDynamicSizes == {8, SIZE_MAX}

\* arena_init(arena, buffer, size) on a descriptor that is not initialized
ArenaInit(buffer, size) ==
    /\ ~acfg.dynamic
    /\ ~arena.initialized
    /\ IF buffer = NULL /\ size > 0
       THEN /\ aev' = ArenaEv("init_failed", 0, 0, NULL, heap, heap)
            /\ UNCHANGED <<arena, heap>>
       ELSE /\ arena' = arena_init(buffer, size)
            /\ aev' = ArenaEv("init", 0, 0, NULL, heap, heap)
            /\ UNCHANGED heap
    /\ amarkers' = <<>>
    /\ alive' = <<>>
    /\ adbg' = IF adbg.on /\ ~(buffer = NULL /\ size > 0) THEN ArenaDebugInit
               ELSE [adbg EXCEPT !.written = {}]
    /\ UNCHANGED <<acfg, nonArena>>

\* arena_init_dynamic(arena, initial_size) on a descriptor that is not
\* initialized
ArenaInitDynamic(initial_size) ==
    LET r == arena_init_dynamic(initial_size)
    IN  /\ acfg.dynamic
        /\ ~arena.initialized
        /\ arena' = r.a
        /\ heap' = r.h
        /\ aev' = ArenaEv(IF r.ok THEN "init" ELSE "init_failed", 0, 0, NULL, heap, r.h)
        /\ amarkers' = <<>>
        /\ alive' = <<>>
        /\ adbg' = IF adbg.on /\ r.ok THEN ArenaDebugInit ELSE [adbg EXCEPT !.written = {}]
        /\ UNCHANGED <<acfg, nonArena>>

\* arena_destroy(arena)
ArenaDestroy ==
    LET r == arena_destroy(acfg, arena, heap)
    IN  /\ arena' = r.a
        /\ heap' = r.h
        /\ aev' = ArenaEv("destroy", 0, 0, NULL, heap, r.h)
        /\ amarkers' = <<>>
        /\ alive' = <<>>
        /\ adbg' = arena_destroy_debug(adbg, arena)
        /\ UNCHANGED <<acfg, nonArena>>

ArenaLifeNext ==
    \/ \E a \in ArenaInitArgs : ArenaInit(a[1], a[2])
    \/ \E initial_size \in ArenaDynamicSizes : ArenaInitDynamic(initial_size)
    \/ ArenaDestroy
    \/ \E size \in ArenaSizes, align \in ArenaAligns : arena.initialized /\ ArenaAlloc(size, align)

\* the (buffer, size, slot size) pool_init is called with, accepted or refused
PoolInitArgs ==
    {<<256, 56, 12>>, <<259, 56, 24>>, <<NULL, 56, 12>>, <<256, 56, 0>>, <<259, 3, 8>>,
     <<256, 4, 8>>, <<256, 8, 8>>, <<256, 0, 8>>}

\* pool_init(pool, buffer, size, slot_size) on a zeroed descriptor
PoolInit(buffer, size, slot_size) ==
    LET r == pool_init(pcfg, buffer, size, slot_size)
    IN  /\ pool = PoolZero
        /\ pool' = r.pl
        /\ pmem' = r.mem
        /\ pallocated' = {}
        /\ plast' = NULL
        /\ pev' = PoolEv(IF r.err = "POOL_OK" THEN "init" ELSE "init_failed", r.err)
        /\ UNCHANGED <<pcfg, nonPool>>

\* the buffer addresses, buffer sizes and slot sizes pool_init is called
\* with, the slot sizes up to SIZE_MAX
PoolAnyAddrs == {256, 259}

PoolAnySizes == {0, 3, 8, 16, 24, 29, 40, 56}

PoolAnySlotSizes == {1, 8, 12, 24, SIZE_MAX - 8, SIZE_MAX - 7, SIZE_MAX}

\* pool_init(pool, buffer, size, slot_size) on a zeroed descriptor; the
\* event keeps the arguments
PoolInitAny(buffer, size, slot_size) ==
    LET r == pool_init(pcfg, buffer, size, slot_size)
    IN  /\ pool = PoolZero
        /\ pool' = r.pl
        /\ pmem' = r.mem
        /\ pallocated' = {}
        /\ plast' = NULL
        /\ pev' = [op |-> "init_any", ret |-> r.err, buffer |-> buffer, size |-> size,
                   slot_size |-> slot_size]
        /\ UNCHANGED <<pcfg, nonPool>>

PoolInitNext ==
    \/ \E buffer \in PoolAnyAddrs, size \in PoolAnySizes, slot_size \in PoolAnySlotSizes :
          PoolInitAny(buffer, size, slot_size)
    \/ PoolDestroy

\* pool_destroy(pool), of an initialized pool or of a zeroed descriptor; the
\* buffer, untouched, goes back to its owner
PoolDestroyAny ==
    /\ pool' = pool_destroy(pool)
    /\ pmem' = <<>>
    /\ pallocated' = {}
    /\ plast' = NULL
    /\ pev' = PoolEv("destroy", NULL)
    /\ UNCHANGED <<pcfg, nonPool>>

PoolCycleNext ==
    \/ \E a \in PoolInitArgs : PoolInit(a[1], a[2], a[3])
    \/ PoolDestroyAny
    \/ pool.buffer # NULL /\ PoolAlloc

\* the allocator a behaviour exercises: the one whose calls it has made
ArenaOnly == pev.op = "none" /\ lev.op = "none"

PoolOnly == aev.op = "none" /\ lev.op = "none"

SlabOnly == aev.op = "none" /\ pev.op = "none"

\* one allocator from its zeroed descriptor on
LifeNext ==
    \/ ArenaOnly /\ ArenaLifeNext
    \/ PoolOnly /\ PoolCycleNext
    \/ SlabOnly /\ SlabLifeNext

\* the addresses the ownership queries are asked about: NULL and the
\* addresses in and around the buffers
LifeProbePtrs == {NULL} \cup (250..320) \cup (505..580)

\* the slab right after a successful slab_init of a zeroed descriptor
SlabConstructed ==
    /\ lcfg \in {[debug |-> FALSE], [debug |-> TRUE]}
    /\ \E i \in SlabInits :
          LET r == slab_init(SlabZero, <<>>, i[1], i[2], i[3])
          IN  /\ r.err = "SLAB_OK"
              /\ slab = r.sl
              /\ lmem = r.mem
    /\ lallocated = {}
    /\ lev = SlabEv("init", 0, NULL, TRUE)

SlabNext ==
    \/ \E size \in SlabSizes : SlabAlloc(size)
    \/ \E ptr \in lallocated \cup {NULL, slab.aligned_start + 1, slab.buffer + slab.capacity} :
          SlabFree(ptr)
    \/ SlabReset
    \/ \E ptr \in lallocated : SlabWrite(ptr)

\* the class an allocation of n bytes belongs in: of the classes whose slot
\* size is at least n, the one with the smallest slot size (the first of
\* them, should several have that size), or SlabNoClass
SlabBestFit(sl, n) ==
    LET fits == {c \in 0..(sl.class_count - 1) : sl.classes[c + 1].slot_size >= n}
    IN  IF fits = {} THEN SlabNoClass
        ELSE CHOOSE c \in fits :
                \A d \in fits :
                   \/ sl.classes[c + 1].slot_size < sl.classes[d + 1].slot_size
                   \/ (sl.classes[c + 1].slot_size = sl.classes[d + 1].slot_size /\ c <= d)

\* the free list of a class as it is in memory: the slots met from its head,
\* at most fuel of them
RECURSIVE SlabWalk(_, _, _)
SlabWalk(mem, p, fuel) ==
    IF p = NULL \/ fuel = 0 \/ p \notin DOMAIN mem THEN <<>>
    ELSE <<p>> \o SlabWalk(mem, mem[p], fuel - 1)

SlabFreeList(sl, mem, c) == SlabWalk(mem, sl.classes[c + 1].free_list, sl.classes[c + 1].slot_count + 1)

(***************************************************************************)
(* C8: a successful slab_alloc(n) with 1 <= n <= slab_max_alloc returns a  *)
(* pointer inside the sub-region of the smallest class whose slot size is  *)
(* at least n, and slab_usable_size of it is that class's slot size.       *)
(***************************************************************************)
C8_SlabAllocBestFit ==
    (lev.op = "alloc" /\ lev.ptr # NULL /\ lev.size >= 1 /\ lev.size <= slab_max_alloc(slab))
        => LET c == SlabBestFit(slab, lev.size)
           IN  /\ c # SlabNoClass
               /\ lev.ptr >= slab.classes[c + 1].region_start
               /\ lev.ptr < slab.classes[c + 1].region_end
               /\ slab_usable_size(slab, lev.ptr) = slab.classes[c + 1].slot_size

(***************************************************************************)
(* C9: slab_alloc(n) returns null exactly when n = 0, or n exceeds the     *)
(* largest class slot size, or the smallest class with slot size >= n has  *)
(* an empty free list; a null return leaves every class's free list and    *)
(* counters unchanged; a slot is never taken from another class than that  *)
(* best-fit class.                                                         *)
(***************************************************************************)
C9_SlabAllocNull ==
    [][lev'.op = "alloc" =>
          LET n == lev'.size
              c == SlabBestFit(slab, n)
          IN  /\ (lev'.ptr = NULL) <=>
                    \/ n = 0
                    \/ \A d \in 1..slab.class_count : n > slab.classes[d].slot_size
                    \/ (c # SlabNoClass /\ slab.classes[c + 1].free_list = NULL)
              /\ lev'.ptr = NULL => (slab' = slab /\ lmem' = lmem)
              /\ lev'.ptr # NULL => slab__find_class_for_ptr(slab, lev'.ptr) = c]_vars

(***************************************************************************)
(* C10: a successful slab_alloc(n) or slab_free(p) changes one class only: *)
(* the class n dispatches to, or the class whose sub-region contains p.    *)
(* That class's free list loses or gains the slot at its head and its      *)
(* free_count moves by one; every other class's descriptor (free list      *)
(* head, counts, counters) and free list in memory are unchanged.          *)
(***************************************************************************)
C10_SlabOneClassChanges ==
    [][((lev'.op = "alloc" \/ lev'.op = "free") /\ lev'.ok /\ lev'.ptr # NULL) =>
          LET c == IF lev'.op = "alloc" THEN slab__find_class_for_size(slab, lev'.size)
                   ELSE slab__find_class_for_ptr(slab, lev'.ptr)
          IN  /\ c # SlabNoClass
              /\ slab__find_class_for_ptr(slab, lev'.ptr) = c
              /\ \A d \in 0..(slab.class_count - 1) :
                    d # c => /\ slab'.classes[d + 1] = slab.classes[d + 1]
                             /\ SlabFreeList(slab', lmem', d) = SlabFreeList(slab, lmem, d)
              /\ lev'.op = "alloc" =>
                    /\ SlabFreeList(slab, lmem, c) = <<lev'.ptr>> \o SlabFreeList(slab', lmem', c)
                    /\ slab'.classes[c + 1].free_count = slab.classes[c + 1].free_count - 1
              /\ lev'.op = "free" =>
                    /\ SlabFreeList(slab', lmem', c) = <<lev'.ptr>> \o SlabFreeList(slab, lmem, c)
                    /\ slab'.classes[c + 1].free_count = slab.classes[c + 1].free_count + 1]_vars

\* the second class served a request while the first class is exhausted
C10_Witness ==
    /\ lev.op = "alloc"
    /\ lev.ptr # NULL
    /\ slab.class_count = 2
    /\ slab__find_class_for_ptr(slab, lev.ptr) = 1
    /\ slab.classes[1].free_list = NULL
    /\ slab.classes[1].slot_count > 1
    /\ slab.classes[2].free_count = slab.classes[2].slot_count - 1

(***************************************************************************)
(* C11: for an arena over a single region (a caller's buffer) and for the  *)
(* stack, 0 <= offset <= capacity and used + remaining = capacity in every *)
(* state between init and destroy.                                         *)
(***************************************************************************)
C11_UsedPlusRemaining ==
    /\ (arena.initialized /\ arena.first_block = NULL) =>
          /\ arena.offset >= 0 /\ arena.offset <= arena.capacity
          /\ arena_used(arena, heap) + arena_remaining(arena) = arena_capacity(arena, heap)
          /\ arena_stats(arena, heap).used + arena_stats(arena, heap).remaining
                = arena_stats(arena, heap).capacity
    /\ stack.buffer # NULL =>
          /\ stack.offset >= 0 /\ stack.offset <= stack.capacity
          /\ stack_stats(stack).used + stack_remaining(stack) = stack_stats(stack).capacity
          /\ stack_stats(stack).used + stack_stats(stack).remaining = stack_stats(stack).capacity

\* an arena over a caller's buffer, rewound to a marker, part used and part
\* remaining
C11_Witness ==
    /\ aev.op = "reset_to"
    /\ arena.first_block = NULL
    /\ arena_used(arena, heap) > 0
    /\ arena_remaining(arena) > 0
    /\ arena_remaining(arena) < arena_capacity(arena, heap)

(***************************************************************************)
(* C12: for an arena that owns a chain of blocks, the reported figures,    *)
(* aggregated across the blocks, satisfy remaining = capacity - used: in   *)
(* arena_stats, and as arena_used + arena_remaining = arena_capacity.      *)
(***************************************************************************)
C12_ChainUsedPlusRemaining ==
    (arena.initialized /\ arena.first_block # NULL) =>
        /\ arena_stats(arena, heap).remaining
              = arena_stats(arena, heap).capacity - arena_stats(arena, heap).used
        /\ arena_used(arena, heap) + arena_remaining(arena) = arena_capacity(arena, heap)

\* does a request fit in the arena's region after alignment padding, in
\* unbounded arithmetic
ArenaFits(a, size, align) ==
    ((a.offset + align - 1) \div align) * align + size <= a.capacity

(***************************************************************************)
(* C13: in an arena that cannot grow (a build without chaining, or an      *)
(* arena over a caller's buffer) an allocation of non-zero size returns    *)
(* null exactly when the request does not fit after alignment padding      *)
(* (size = SIZE_MAX included), and a null return leaves offset, used and   *)
(* remaining unchanged, so that what fitted before still succeeds.         *)
(***************************************************************************)
C13_ArenaFailLeavesState ==
    [][(aev'.op = "alloc" /\ (~acfg.chaining \/ arena.first_block = NULL)) =>
          /\ aev'.ret = NULL =>
                /\ arena'.offset = arena.offset
                /\ arena_used(arena', heap') = arena_used(arena, heap)
                /\ arena_remaining(arena') = arena_remaining(arena)
          /\ \A size \in ArenaSizes \ {0}, align \in ArenaAligns :
                /\ (arena__alloc(acfg, arena, heap, size, align).ret # NULL)
                      <=> ArenaFits(arena, size, align)
                /\ (aev'.ret = NULL /\ ArenaFits(arena, size, align))
                      => arena__alloc(acfg, arena', heap', size, align).ret # NULL]_vars

\* a request was refused with part of the region used and part remaining
C13_Witness ==
    /\ aev.op = "alloc"
    /\ aev.ret = NULL
    /\ ~acfg.chaining
    /\ arena.offset > 0
    /\ ArenaFits(arena, 1, 1)
    /\ ~ArenaFits(arena, 24, 32)

\* does a request fit in the stack's buffer behind its header word, the
\* user address aligned, in unbounded arithmetic
StackFits(st, size, alignment) ==
    LET a == Max2(alignment, STACK_MIN_ALIGNMENT)
        u == ((st.buffer + st.offset + STACK_HEADER_SIZE + a - 1) \div a) * a
    IN  (u - st.buffer) + size <= st.capacity

(***************************************************************************)
(* C14: stack_alloc_aligned returns null for size 0 and for any request    *)
(* whose aligned end offset exceeds the capacity or wraps, and (the debug  *)
(* tracking array given memory) only then; a null return leaves used,      *)
(* remaining and the debug allocation_count unchanged, so that a request   *)
(* that fitted before still succeeds.                                      *)
(***************************************************************************)
C14_StackFailLeavesState ==
    [][sev'.op = "alloc" =>
          /\ sev'.ptr = NULL =>
                /\ stack_stats(stack') = stack_stats(stack)
                /\ stack_remaining(stack') = stack_remaining(stack)
          /\ \A size \in StackSizes, alignment \in StackAligns :
                /\ (stack_alloc_aligned(scfg, stack, smem, size, alignment, TRUE).ret # NULL)
                      <=> (size # 0 /\ StackFits(stack, size, alignment))
                /\ (sev'.ptr = NULL /\ size # 0 /\ StackFits(stack, size, alignment))
                      => stack_alloc_aligned(scfg, stack', smem', size, alignment, TRUE).ret # NULL]_vars

\* a request was refused by a debug stack holding an allocation, with room
\* left for a smaller request
C14_Witness ==
    /\ sev.op = "alloc"
    /\ sev.ptr = NULL
    /\ scfg.debug
    /\ stack.alloc_count = 1
    /\ stack.offset > 0
    /\ StackFits(stack, 1, 1)
    /\ ~StackFits(stack, 16, 32)

(***************************************************************************)
(* C15: on every initialized arena an allocation of size 0 returns a       *)
(* non-null pointer equal to base + offset and advances nothing (the       *)
(* descriptor, its blocks and used are unchanged), and a zero-size         *)
(* allocation that follows it at once returns the same pointer.            *)
(***************************************************************************)
C15_ZeroSizeAlias ==
    [][\A align \in ArenaAligns :
          (arena.initialized /\ ArenaAlloc(0, align)) =>
             /\ aev'.ret # NULL
             /\ aev'.ret = arena.buffer + arena.offset
             /\ arena' = arena
             /\ heap' = heap
             /\ arena_used(arena', heap') = arena_used(arena, heap)
             /\ \A al2 \in ArenaAligns :
                   arena__alloc(acfg, arena', heap', 0, al2).ret = aev'.ret]_vars

\* the capacity of the arena's first region: the first block's, or the
\* caller's buffer's
ArenaFirstCapacity(a, h) ==
    IF a.first_block # NULL THEN h[a.first_block].capacity ELSE a.capacity

\* do the requests reqs[i..], made in order from (a, h), all succeed
RECURSIVE ArenaReplay(_, _, _, _, _)
ArenaReplay(cfg, a, h, reqs, i) ==
    IF i > Len(reqs) THEN TRUE
    ELSE LET r == arena__alloc(cfg, a, h, reqs[i].size, reqs[i].align)
         IN  r.ret # NULL /\ ArenaReplay(cfg, r.a, r.h, reqs, i + 1)

(***************************************************************************)
(* C16: after arena_reset used = 0 and remaining is the capacity of the    *)
(* first region, no block was freed (the number of outstanding blocks and  *)
(* block_count are unchanged), and the requests whose allocations were     *)
(* live at the reset (the sequence that had succeeded, rolled-back         *)
(* requests left out) succeed again when made in the same order.           *)
(***************************************************************************)
C16_ResetThenReplay ==
    [][aev'.op = "reset" =>
          /\ arena_used(arena', heap') = 0
          /\ arena_remaining(arena') = ArenaFirstCapacity(arena', heap')
          /\ aev'.dblocks = 0
          /\ arena_stats(arena', heap').block_count = arena_stats(arena, heap).block_count
          /\ ArenaReplay(acfg, arena', heap', alive, 1)]_vars

\* the bytes malloc gave for block b: its header, then its buffer
ArenaBlockBytes(h, b) ==
    (h[b].buffer - arena__align_up(SizeofArenaBlock, ARENA_DEFAULT_ALIGN))
        .. (h[b].buffer + h[b].capacity - 1)

(***************************************************************************)
(* C17: an allocation that grows a chaining arena by a block frees and     *)
(* moves no earlier block and leaves each one's buffer, capacity and       *)
(* watermark as they were (of an earlier block only the link of the one    *)
(* that was current is set); the new block's bytes, the only ones the      *)
(* growth writes besides that link, lie apart from every earlier block's,  *)
(* and every allocation made before the growth still lies inside the       *)
(* buffer of its block, still allocated.                                   *)
(***************************************************************************)
C17_GrowthKeepsEarlierBlocks ==
    [][(aev'.op = "alloc" /\ aev'.dblocks > 0) =>
          /\ \A b \in DOMAIN heap :
                /\ b \in DOMAIN heap'
                /\ heap'[b].buffer = heap[b].buffer
                /\ heap'[b].capacity = heap[b].capacity
                /\ heap'[b].offset = heap[b].offset
                /\ heap'[b].prev = heap[b].prev
                /\ heap'[b].owned = heap[b].owned
                /\ b # arena.current_block => heap'[b].next = heap[b].next
                /\ ArenaBlockBytes(heap', arena'.current_block)
                      \cap ArenaBlockBytes(heap, b) = {}
          /\ arena'.current_block \notin DOMAIN heap
          /\ \A i \in 1..Len(alive) :
                /\ alive'[i] = alive[i]
                /\ alive[i].blk \in DOMAIN heap'
                /\ alive[i].addr >= heap'[alive[i].blk].buffer
                /\ alive[i].addr + alive[i].size
                      <= heap'[alive[i].blk].buffer + heap'[alive[i].blk].capacity]_vars

\* the arena has just grown by a second block, with an allocation of the
\* first block live
C17_Witness ==
    /\ aev.op = "alloc"
    /\ aev.dblocks = 1
    /\ Len(alive) = 2
    /\ alive[1].blk = arena.first_block
    /\ alive[2].blk = arena.current_block
    /\ arena.current_block # arena.first_block
    /\ heap[arena.first_block].offset > 0

\* the offsets of the bytes of the k-th live allocation: its header word
\* and its user region
StackHeaderBytes(k) == (slive[k].off - STACK_HEADER_SIZE) .. (slive[k].off - 1)

StackUserBytes(k) == slive[k].off .. (slive[k].off + slive[k].size - 1)

(***************************************************************************)
(* C18: under LIFO use of a stack the user regions and the header words of *)
(* the live allocations are pairwise disjoint and lie inside [0, offset),  *)
(* offset <= capacity, and the header word of each live allocation still   *)
(* holds the watermark from before that allocation, whatever the caller    *)
(* has written into the bytes of its allocations.                          *)
(***************************************************************************)
C18_StackLiveDisjoint ==
    stack.buffer # NULL =>
       /\ stack.offset <= stack.capacity
       /\ \A k \in 1..Len(slive) :
             /\ slive[k].size > 0
             /\ slive[k].off - STACK_HEADER_SIZE >= 0
             /\ slive[k].off + slive[k].size <= stack.offset
             /\ slive[k].addr = stack.buffer + slive[k].off
             /\ (slive[k].off - STACK_HEADER_SIZE) \in DOMAIN smem
             /\ smem[slive[k].off - STACK_HEADER_SIZE] = slive[k].prev
             /\ slive[k].prev <= slive[k].off - STACK_HEADER_SIZE
       /\ \A j, k \in 1..Len(slive) :
             j # k =>
                (StackHeaderBytes(j) \cup StackUserBytes(j))
                   \cap (StackHeaderBytes(k) \cup StackUserBytes(k)) = {}

\* two allocations are live and the caller has just overwritten the bytes
\* of the older one, which end where the newer one's header word begins
C18_Witness ==
    /\ sev.op = "write"
    /\ Len(slive) = 2
    /\ (slive[1].off - STACK_HEADER_SIZE) \in DOMAIN smem
    /\ (slive[2].off - STACK_HEADER_SIZE) \in DOMAIN smem
    /\ slive[1].off + slive[1].size = slive[2].off - STACK_HEADER_SIZE
    /\ slive[2].prev > 0

(***************************************************************************)
(* C19: the address stack_alloc_aligned(size, a) returns is a multiple of  *)
(* max(a, STACK_MIN_ALIGNMENT), whatever the address of the buffer: an     *)
(* alignment below the minimum is raised to it.                            *)
(***************************************************************************)
C19_StackAllocAligned ==
    /\ (sev.op = "alloc" /\ sev.ptr # NULL) =>
          /\ slive # <<>>
          /\ slive[Len(slive)].addr = sev.ptr
    /\ \A k \in 1..Len(slive) :
          /\ slive[k].addr # NULL
          /\ slive[k].addr % Max2(slive[k].align, STACK_MIN_ALIGNMENT) = 0
          /\ slive[k].addr % STACK_MIN_ALIGNMENT = 0

\* in a buffer at an odd address, an allocation asked with alignment 1 and
\* then one asked with an alignment above the minimum
C19_Witness ==
    /\ sev.op = "alloc"
    /\ sev.ptr # NULL
    /\ stack.buffer % 2 = 1
    /\ Len(slive) = 2
    /\ slive[1].align < STACK_MIN_ALIGNMENT
    /\ slive[2].align > STACK_MIN_ALIGNMENT
    /\ slive[2].addr = sev.ptr

\* the pool after k calls of pool_alloc
RECURSIVE PoolAfterAllocs(_, _, _, _)
PoolAfterAllocs(cfg, pl, mem, k) ==
    IF k = 0 THEN pl
    ELSE pool_alloc(cfg, PoolAfterAllocs(cfg, pl, mem, k - 1), mem).pl

\* a pool as pool_init and pool_reset leave it: the list runs through the
\* slots in address order, and draining it hands them out in that order
PoolFresh(cfg, pl, mem) ==
    LET N == pl.slot_count
        last == pool_alloc(cfg, PoolAfterAllocs(cfg, pl, mem, N), mem)
    IN  /\ PoolWalk(pl, mem, pl.free_list, N + 1)
              = [i \in 1..(N + 1) |-> IF i <= N THEN pool__slot_ptr(pl, i - 1) ELSE NULL]
        /\ pl.free_count = N
        /\ pool_available(pl) = N
        /\ \A k \in 1..N :
              LET r == pool_alloc(cfg, PoolAfterAllocs(cfg, pl, mem, k - 1), mem)
              IN  /\ r.ret = pool__slot_ptr(pl, k - 1)
                  /\ r.ret # NULL
                  /\ ~r.failed
                  /\ \A j \in 1..(k - 1) : pool__slot_ptr(pl, j - 1) < r.ret
        /\ last.ret = NULL
        /\ last.pl = PoolAfterAllocs(cfg, pl, mem, N)

(***************************************************************************)
(* C20: after pool_init and after pool_reset the free list is slot 0 ->    *)
(* slot 1 -> ... -> slot N-1 -> NULL and free_count = slot_count = N;      *)
(* exactly N consecutive pool_alloc calls succeed, returning the N slots   *)
(* in ascending address order, and the next returns null and changes       *)
(* nothing; in every state pool_alloc returns null exactly when            *)
(* free_count = 0, and a null return changes nothing.                      *)
(***************************************************************************)
C20_PoolFreshList ==
    [][/\ pev.op \in {"init", "reset"} => PoolFresh(pcfg, pool, pmem)
       /\ pev'.op = "alloc" =>
             /\ (pev'.ret = NULL) <=> (pool.free_count = 0)
             /\ pev'.ret = NULL => (pool' = pool /\ pmem' = pmem /\ pallocated' = pallocated)
             /\ pev'.ret # NULL => pool_available(pool') = pool_available(pool) - 1]_vars

\* a debug pool of three slots, drained by three allocations since its
\* reset, has just refused a fourth
C20_Witness ==
    /\ pev.op = "alloc"
    /\ pev.ret = NULL
    /\ pcfg.debug
    /\ pool.slot_count = 3
    /\ pool.total_allocs = 3
    /\ pool.total_frees = 0
    /\ pool.free_count = 0
    /\ pallocated = PoolSlots

C22_PoolBitmapExact ==
    (pcfg.debug /\ pool.buffer # NULL) =>
       /\ pool.alloc_bitmap = {pool__slot_index(pool, p) : p \in pallocated}
       /\ \A i \in 0..(pool.slot_count - 1) :
             pool__bitmap_get(pool, i) <=> (pool__slot_ptr(pool, i) \in pallocated)
       /\ Cardinality(pool.alloc_bitmap) = pool.slot_count - pool.free_count
       /\ Cardinality(pool.alloc_bitmap) = pool_used(pool)
       /\ \A p \in PoolFreePtrs : pool_is_allocated(pool, p) <=> (p \in pallocated)

\* a debug pool with two slots allocated and one freed has just rejected a
\* free
C22_Witness ==
    /\ pcfg.debug
    /\ pev.op = "free"
    /\ pev.ret = "POOL_ERR_DOUBLE_FREE"
    /\ Cardinality(pool.alloc_bitmap) = 2
    /\ pool.total_frees = 1
    /\ pool.slot_count = 3

\* pointers to ask slab_owns about: the slots, NULL, a pointer inside the
\* first slot, the buffer's first and last byte, and the bytes just outside it
SlabProbePtrs ==
    SlabSlots \cup {NULL, slab.aligned_start + 1, slab.buffer, slab.buffer + slab.capacity - 1,
                    slab.buffer + slab.capacity, slab.buffer - 1}

\* the addresses inside the sub-regions of the slab's classes
SlabRegionBytes ==
    UNION {slab.classes[c].region_start .. (slab.classes[c].region_end - 1) :
              c \in 1..slab.class_count}

(***************************************************************************)
(* C23 as stated: pool_owns(p) and slab_owns(p) are true if and only if p  *)
(* was returned by an alloc of this allocator and has not been freed or    *)
(* invalidated by a reset since.                                           *)
(***************************************************************************)
C23_OwnsIffLive ==
    /\ pool.buffer # NULL =>
          \A p \in PoolFreePtrs : pool_owns(pool, p) <=> (p \in pallocated)
    /\ slab.initialized = SLAB_MAGIC =>
          \A p \in SlabProbePtrs : slab_owns(slab, p) <=> (p \in lallocated)

(***************************************************************************)
(* C23, amended: pool_owns(p) is true exactly when p is the address of a   *)
(* slot of the pool, and slab_owns(p) exactly when p lies inside the       *)
(* sub-region of a class; so owns is true of every pointer an alloc        *)
(* returned that has not been freed, and of the free slots as well.        *)
(***************************************************************************)
C23_OwnsIsRange ==
    /\ pool.buffer # NULL =>
          /\ \A p \in PoolFreePtrs : pool_owns(pool, p) <=> (p \in PoolSlots)
          /\ \A p \in pallocated : pool_owns(pool, p)
          /\ pev.op = "alloc" /\ pev.ret # NULL => pool_owns(pool, pev.ret)
    /\ slab.initialized = SLAB_MAGIC =>
          /\ \A p \in SlabProbePtrs : slab_owns(slab, p) <=> (p \in SlabRegionBytes)
          /\ \A p \in lallocated : slab_owns(slab, p)
          /\ \A p \in SlabSlots : slab_owns(slab, p)
          /\ lev.op = "alloc" /\ lev.ptr # NULL => slab_owns(slab, lev.ptr)

\* a pool that holds one slot has just taken back another, which it still
\* owns
C23_Witness ==
    /\ pev.op = "free"
    /\ pev.ret = "POOL_OK"
    /\ plast # NULL
    /\ plast \notin pallocated
    /\ pool_owns(pool, plast)
    /\ pallocated # {}

(***************************************************************************)
(* C24: for slot_size >= 1 and slot_count >= 1, pool_init over a buffer of *)
(* pool_required_size(slot_size, slot_count) bytes, at an aligned or an    *)
(* unaligned address, returns POOL_OK and gives a pool_capacity of at      *)
(* least slot_count, in the release and in the debug layout.               *)
(***************************************************************************)
C24_RequiredSizeSuffices ==
    pev.op = "init_sized" =>
       /\ pev.ret = "POOL_OK"
       /\ pool_capacity(pool) >= pev.slot_count

\* the bytes a slab of the size list needs for k slots in every class, in
\* unbounded arithmetic
SlabNeededExact(sizes, k) ==
    LET up(x)  == ((x + SLAB_ALIGNMENT - 1) \div SLAB_ALIGNMENT) * SLAB_ALIGNMENT
        al(i)  == Max2(up(sizes[i]), SLAB_MIN_SLOT_SIZE)
        m      == CHOOSE x \in {al(i) : i \in 1..Len(sizes)} : \A i \in 1..Len(sizes) : al(i) <= x
    IN  up(m * Max2(k, 1)) * Len(sizes) + SLAB_ALIGNMENT - 1

\* slab_init over the buffer sized for k slots succeeded with at least
\* max(k, 1) slots in every class
SlabSizedOk ==
    /\ lev.err = "SLAB_OK"
    /\ slab.initialized = SLAB_MAGIC
    /\ slab.class_count = Len(lev.sizes)
    /\ \A c \in 1..slab.class_count : slab.classes[c].slot_count >= Max2(lev.k, 1)

(***************************************************************************)
(* C25 as stated: for every list of non-zero sizes (distinct, at most      *)
(* SLAB_MAX_CLASSES of them) and every k, slab_init over a buffer of       *)
(* slab_buffer_size_needed(sizes, count, k) bytes, at an aligned or an     *)
(* unaligned address, returns SLAB_OK with at least max(k, 1) slots in     *)
(* every class.                                                            *)
(***************************************************************************)
C25_SizeNeededSuffices ==
    lev.op = "init_sized" => SlabSizedOk

(***************************************************************************)
(* C25, amended: the same, for the size lists and k whose needed size      *)
(* (largest slot size times max(k, 1), rounded up, times count, plus       *)
(* SLAB_ALIGNMENT - 1) is representable in size_t.                         *)
(***************************************************************************)
C25_SizeNeededSufficesIfRepresentable ==
    (lev.op = "init_sized" /\ SlabNeededExact(lev.sizes, lev.k) <= SIZE_MAX) =>
        /\ lev.size = SlabNeededExact(lev.sizes, lev.k)
        /\ SlabSizedOk

\* a slab of three classes sized for two slots each, in a buffer at an
\* unaligned address
C25_Witness ==
    /\ lev.op = "init_sized"
    /\ lev.k = 2
    /\ Len(lev.sizes) = 3
    /\ lev.ptr % SLAB_ALIGNMENT # 0
    /\ slab.initialized = SLAB_MAGIC
    /\ \E c \in 1..slab.class_count : slab.classes[c].slot_count > 2
    /\ \E c \in 1..slab.class_count : slab.classes[c].slot_count = 2

\* two sizes of the list are equal after rounding up to SLAB_ALIGNMENT
SlabRoundedDuplicates(sizes) ==
    \E i, j \in 1..Len(sizes) :
        i # j /\ SLAB_ALIGN_UP(sizes[i], SLAB_ALIGNMENT) = SLAB_ALIGN_UP(sizes[j], SLAB_ALIGNMENT)

\* a slab_init has just returned
SlabInitReturned == lev.op \in {"init", "init_sized"}

(***************************************************************************)
(* C26: a slab_init that gets past the checks of the buffer size, of the   *)
(* count and of the initialized descriptor returns SLAB_ERR_INVALID_SIZE   *)
(* when two sizes are equal after rounding up to SLAB_ALIGNMENT; after a   *)
(* successful slab_init the class slot sizes are strictly ascending.       *)
(***************************************************************************)
C26_RoundedDuplicatesRefused ==
    SlabInitReturned =>
        /\ (/\ lev.err \notin {"SLAB_ERR_ZERO_SIZE", "SLAB_ERR_TOO_MANY", "SLAB_ERR_ALREADY_INIT"}
            /\ SlabRoundedDuplicates(lev.sizes))
           => lev.err = "SLAB_ERR_INVALID_SIZE"
        /\ lev.err = "SLAB_OK" =>
              \A c \in 1..(slab.class_count - 1) :
                  slab.classes[c].slot_size < slab.classes[c + 1].slot_size

(***************************************************************************)
(* C27: after a successful slab_init, for every class i (sizes taken in    *)
(* ascending order) the effective slot size equals the size rounded up to  *)
(* a multiple of SLAB_ALIGNMENT, or the pointer width if that is larger,   *)
(* and is at least the size, also for sizes within SLAB_ALIGNMENT of       *)
(* SIZE_MAX.                                                               *)
(***************************************************************************)
C27_EffectiveSlotSize ==
    (SlabInitReturned /\ lev.err = "SLAB_OK") =>
        LET sorted == slab__sort_sizes(lev.sizes)
            up(x)  == ((x + SLAB_ALIGNMENT - 1) \div SLAB_ALIGNMENT) * SLAB_ALIGNMENT
        IN  \A c \in 1..slab.class_count :
                /\ slab.classes[c].slot_size = Max2(up(sorted[c]), SizeofPtr)
                /\ slab.classes[c].slot_size >= sorted[c]

\* the arguments slab_init accepts on a zeroed descriptor
SlabValidArgs == {a \in SlabInitArgs : slab_init(SlabZero, <<>>, a[1], a[2], a[3]).err = "SLAB_OK"}

(***************************************************************************)
(* C28: slab_init with arguments a zeroed descriptor accepts, called on an *)
(* initialized descriptor, returns SLAB_ERR_ALREADY_INIT and leaves the    *)
(* descriptor, the free-list words of the region and the outstanding       *)
(* allocations as they were; called after slab_destroy, it returns SLAB_OK *)
(* and builds the slab a zeroed descriptor gets.                           *)
(***************************************************************************)
C28_InitTwiceRefused ==
    [][\A a \in SlabValidArgs :
          (lev'.op = "init" /\ SlabInit(a[1], a[2], a[3])) =>
             /\ slab.initialized = SLAB_MAGIC =>
                   /\ lev'.err = "SLAB_ERR_ALREADY_INIT"
                   /\ slab' = slab
                   /\ lmem' = lmem
                   /\ lallocated' = lallocated
             /\ lev.op = "destroy" =>
                   /\ lev'.err = "SLAB_OK"
                   /\ slab' = slab_init(SlabZero, <<>>, a[1], a[2], a[3]).sl
                   /\ lmem' = slab_init(SlabZero, <<>>, a[1], a[2], a[3]).mem]_vars

\* a second slab_init was refused while an allocation was outstanding
C28_Witness ==
    /\ lev.op = "init"
    /\ lev.err = "SLAB_ERR_ALREADY_INIT"
    /\ <<lev.ptr, lev.size, lev.sizes>> \in SlabValidArgs
    /\ lallocated # {}
    /\ \E c \in 1..slab.class_count : slab.classes[c].free_count < slab.classes[c].slot_count

\* what the queries and a further destroy give on an arena that is not
\* initialized
ArenaQueriesDefault ==
    /\ ~arena_is_valid(arena)
    /\ arena_capacity(arena, heap) = 0
    /\ arena_used(arena, heap) = 0
    /\ arena_remaining(arena) = 0
    /\ arena_destroy(acfg, arena, heap) = [a |-> arena, h |-> heap]

PoolQueriesDefault ==
    /\ pool_capacity(pool) = 0
    /\ pool_available(pool) = 0
    /\ pool_used(pool) = 0
    /\ pool_alloc(pcfg, pool, pmem).ret = NULL
    /\ \A p \in LifeProbePtrs : ~pool_owns(pool, p)
    /\ pool_destroy(pool) = pool

SlabQueriesDefault ==
    /\ slab_class_count(slab) = 0
    /\ slab_max_alloc(slab) = 0
    /\ \A size \in SlabSizes : slab_alloc(lcfg, slab, lmem, size).ret = NULL
    /\ \A p \in LifeProbePtrs : ~slab_owns(slab, p)
    /\ slab_destroy(slab) = slab

(***************************************************************************)
(* C29: after an init that failed on a descriptor that was not             *)
(* initialized, and after a destroy, the allocator is not initialized:     *)
(* arena_is_valid is false and arena_capacity, arena_used and              *)
(* arena_remaining are 0; pool_capacity, pool_available and pool_used are  *)
(* 0, pool_alloc returns NULL and pool_owns is false; slab_class_count and *)
(* slab_max_alloc are 0, slab_alloc returns NULL and slab_owns is false; a *)
(* destroy in that state changes nothing.                                  *)
(***************************************************************************)
C29_NotInitializedState ==
    [][/\ (/\ aev'.op \in {"init_failed", "destroy"}
           /\ aev'.op = "init_failed" => ~arena.initialized)
          => ArenaQueriesDefault'
       /\ (/\ pev'.op \in {"init_failed", "destroy"}
           /\ pev'.op = "init_failed" => pool = PoolZero)
          => PoolQueriesDefault'
       /\ (\/ lev'.op = "destroy"
           \/ /\ lev'.op \in {"init", "init_sized"}
              /\ lev'.err # "SLAB_OK"
              /\ slab.initialized # SLAB_MAGIC)
          => SlabQueriesDefault']_vars

\* a slab whose init failed after it had stored the buffer and the class
\* count in the descriptor
C29_Witness ==
    /\ lev.op = "init"
    /\ lev.err = "SLAB_ERR_BUFFER_SMALL"
    /\ slab.class_count = 2
    /\ slab.buffer # NULL

(***************************************************************************)
(* C30: in a build with STACK_DEBUG and STACK_VALIDATE_LIFO, stack_free(p) *)
(* of a live allocation p raises the LIFO assertion exactly when p is not  *)
(* the most recently allocated allocation that is still live; a free of    *)
(* the top allocation never raises it, also after stack_restore and        *)
(* stack_reset.                                                            *)
(***************************************************************************)
C30_LifoAssertion ==
    [][\A k \in 1..Len(slive) :
          (scfg.validate_lifo /\ sev'.op = "free" /\ sev'.ptr = slive[k].addr) =>
             (stack__debug_pop(scfg, stack, slive[k].addr).failed <=> k # Len(slive))]_vars

\* two allocations are live, and the free of the one below the top was
\* refused
C30_Witness ==
    /\ scfg.validate_lifo
    /\ Len(slive) = 2
    /\ sev.op = "free"
    /\ sev.failed
    /\ sev.ptr = slive[1].addr
    /\ stack.alloc_count = 2

(***************************************************************************)
(* C31: in a chaining arena every block that is allocated and not yet      *)
(* freed is reachable from first_block through next links, so that         *)
(* arena_destroy frees every block; the blocks arena_reset keeps are not   *)
(* replaced by newly allocated ones.                                       *)
(***************************************************************************)
C31_BlocksReachable ==
    (acfg.chaining /\ arena.first_block # NULL) =>
        /\ DOMAIN heap = Range(Chain(heap, arena.first_block))
        /\ DOMAIN arena_destroy(acfg, arena, heap).h = {}

\* the place of block b in the chain c (0 if it is not in it)
ChainIndex(c, b) == IF \E i \in 1..Len(c) : c[i] = b THEN CHOOSE i \in 1..Len(c) : c[i] = b ELSE 0

(***************************************************************************)
(* C32: in a chaining arena, arena_reset_to(m) with a valid marker frees   *)
(* exactly the blocks after m's block in the chain, leaves m's block the   *)
(* last and the current one with offset m.offset, and leaves the earlier   *)
(* blocks as they were; in every reachable state the chain is doubly       *)
(* linked with every block's offset <= capacity: arena_check_integrity     *)
(* holds.                                                                  *)
(***************************************************************************)
C32_ResetToFreesLaterBlocks ==
    /\ []arena_check_integrity(acfg, arena, heap)
    /\ [][\A i \in 1..Len(amarkers) :
            (/\ acfg.chaining
             /\ arena.first_block # NULL
             /\ aev'.op = "reset_to"
             /\ ArenaResetTo(i)) =>
               LET m  == amarkers[i]
                   c  == Chain(heap, arena.first_block)
                   k  == ChainIndex(c, m.block)
               IN  /\ k > 0
                   /\ DOMAIN heap' = (DOMAIN heap) \ {c[j] : j \in (k + 1)..Len(c)}
                   /\ Chain(heap', arena'.first_block) = SubSeq(c, 1, k)
                   /\ heap'[m.block].next = NULL
                   /\ arena'.current_block = m.block
                   /\ heap'[m.block].offset = m.offset
                   /\ arena'.offset = m.offset
                   /\ arena'.buffer = heap'[m.block].buffer
                   /\ arena'.capacity = heap'[m.block].capacity
                   /\ \A j \in 1..(k - 1) : heap'[c[j]] = heap[c[j]]]_vars

\* a rewind to a marker inside the first block has freed the block the arena
\* had grown to
C32_Witness ==
    /\ acfg.chaining
    /\ aev.op = "reset_to"
    /\ aev.dblocks = -1
    /\ arena.current_block = arena.first_block
    /\ arena.offset > 0

\* x rounded up to a multiple of a, in unbounded arithmetic
RoundUp(x, a) == ((x + a - 1) \div a) * a

\* what a stack_alloc_aligned(size, alignment) step did, given the offset
\* uoff its user region belongs at and whether it may fail for another
\* reason than the capacity: null exactly when the region does not fit (or
\* it failed for the other reason), else the region is at uoff, the word
\* before it holds the previous watermark and the watermark is its end
StackAllocPlaced(size, uoff, mayfail) ==
    LET prev == stack.offset
        end  == uoff + size
    IN  /\ sev'.ptr = NULL <=> (end > stack.capacity \/ mayfail)
        /\ sev'.ptr = NULL => stack'.offset = prev
        /\ sev'.ptr # NULL =>
              /\ sev'.ptr = stack.buffer + uoff
              /\ (uoff - STACK_HEADER_SIZE) \in DOMAIN smem'
              /\ smem'[uoff - STACK_HEADER_SIZE] = prev
              /\ stack'.offset = end

\* the effective alignment of a request
StackAlignment(alignment) == Max2(alignment, STACK_MIN_ALIGNMENT)

C34_FreeSlotsHoldMagic ==
    (pcfg.debug /\ pool.buffer # NULL /\ pool.slot_size >= 2 * SizeofPtr) =>
        \A i \in 0..(pool.slot_count - 1) :
            ~pool__bitmap_get(pool, i) => pool__has_free_magic(pmem, i)

\* the slots on the free list, and whether the list runs into a cycle
PoolListSlots(pl, mem) == Range(PoolListOf(pl, mem)) \ {NULL}

PoolListCyclic(pl, mem) ==
    LET w == PoolListOf(pl, mem)
    IN  Len(w) = pl.slot_count + 1 /\ w[Len(w)] # NULL

(***************************************************************************)
(* C35: in a release build, pool_free of an owned slot that is free        *)
(* already returns POOL_OK; the pool, intact before, is then corrupted:    *)
(* free_count has grown by one and no longer equals the number of distinct *)
(* slots on the free list, and the free list is cyclic.                    *)
(***************************************************************************)
C35_DoubleFreeCorrupts ==
    [][\A ptr \in PoolSlots :
          (pev'.op = "free" /\ PoolListIntact /\ PoolFreeAgain(ptr)) =>
             /\ pev'.ret = "POOL_OK"
             /\ pool'.free_count = pool.free_count + 1
             /\ pool'.free_count # Cardinality(PoolListSlots(pool', pmem'))
             /\ PoolListCyclic(pool', pmem')]_vars

\* after the second free of the head of a full free list, free_count
\* exceeds slot_count, the list is cyclic, and two pool_alloc calls in a row
\* return the same slot
C35_Witness ==
    /\ ~pcfg.debug
    /\ pev.op = "free"
    /\ pev.ret = "POOL_OK"
    /\ pool.free_count > pool.slot_count
    /\ PoolListCyclic(pool, pmem)
    /\ LET r1 == pool_alloc(pcfg, pool, pmem)
           r2 == pool_alloc(pcfg, r1.pl, pmem)
       IN  r1.ret # NULL /\ r1.ret = r2.ret

(***************************************************************************)
(* C36: pool_init(buffer, size, slot_size) with a slot size in 1..SIZE_MAX *)
(* returns POOL_OK or POOL_ERR_BUFFER_TOO_SMALL; after POOL_OK the         *)
(* effective slot size is at least max(slot_size, pointer width) and a     *)
(* multiple of POOL_ALIGN, the first slot is POOL_ALIGN-aligned,           *)
(* slot_count = floor(usable / effective slot size) >= 1, and the slots    *)
(* and the debug bitmap behind them lie inside [buffer, buffer + size).    *)
(***************************************************************************)
C36_PoolInitLayout ==
    pev.op = "init_any" =>
        /\ pev.ret \in {"POOL_OK", "POOL_ERR_BUFFER_TOO_SMALL"}
        /\ pev.ret = "POOL_OK" =>
              LET usable == pev.size - (pool.buffer - pev.buffer) - pool.bitmap_size
              IN  /\ pool.slot_size >= Max2(pev.slot_size, SizeofPtr)
                  /\ pool.slot_size % POOL_ALIGN = 0
                  /\ pool.buffer % POOL_ALIGN = 0
                  /\ pool.buffer >= pev.buffer
                  /\ pool.slot_count >= 1
                  /\ pool.slot_count = usable \div pool.slot_size
                  /\ pool.buffer_end = pool.buffer + pool.slot_count * pool.slot_size
                  /\ pool.buffer_end + pool.bitmap_size <= pev.buffer + pev.size
                  /\ pcfg.debug => pool.bitmap_size * 8 >= pool.slot_count

\* C37: after a successful slab_init, class i's sub-region starts at
\* aligned_start + i * region_size, where region_size is usable / count
\* rounded down to SLAB_ALIGNMENT; it holds region_size / slot_size >= 1
\* slots; the sub-regions are pairwise disjoint and lie inside
\* [buffer, buffer + size); every slot address is SLAB_ALIGNMENT-aligned,
\* whatever the base address of the buffer.
C37_SlabLayout ==
    (SlabInitReturned /\ lev.err = "SLAB_OK") =>
        LET count       == Len(lev.sizes)
            region_size == ((slab.usable_capacity \div count) \div SLAB_ALIGNMENT)
                               * SLAB_ALIGNMENT
        IN  /\ slab.class_count = count
            /\ slab.aligned_start % SLAB_ALIGNMENT = 0
            /\ slab.aligned_start >= lev.ptr
            /\ slab.aligned_start - lev.ptr < SLAB_ALIGNMENT
            /\ slab.usable_capacity = lev.size - (slab.aligned_start - lev.ptr)
            /\ \A c \in 1..count :
                   LET cls == slab.classes[c]
                   IN  /\ cls.region_start = slab.aligned_start + (c - 1) * region_size
                       /\ cls.slot_count = region_size \div cls.slot_size
                       /\ cls.slot_count >= 1
                       /\ cls.region_end = cls.region_start + cls.slot_count * cls.slot_size
                       /\ cls.region_end <= cls.region_start + region_size
                       /\ lev.ptr <= cls.region_start
                       /\ cls.region_end <= lev.ptr + lev.size
                       /\ \A d \in 1..count :
                              c < d => cls.region_end <= slab.classes[d].region_start
                       /\ \A k \in 0..(cls.slot_count - 1) :
                              (cls.region_start + k * cls.slot_size) % SLAB_ALIGNMENT = 0

\* a slab of three classes was laid out over a buffer whose base address is
\* not aligned
C37_Witness ==
    /\ SlabInitReturned
    /\ lev.err = "SLAB_OK"
    /\ lev.ptr % SLAB_ALIGNMENT # 0
    /\ slab.class_count = 3
    /\ \E c \in 1..slab.class_count : slab.classes[c].slot_count >= 2

\* the class of the slab whose sub-region holds ptr
SlabClassOf(ptr) == slab__find_class_for_ptr(slab, ptr) + 1

\* the free list of class c holds each of its non-allocated slots once and
\* nothing else, and free_count is its length
SlabListExact(c) ==
    LET cls  == slab.classes[c]
        list == SlabFreeList(slab, lmem, c - 1)
    IN  /\ Range(list) = SlabClassSlots(cls) \ lallocated
        /\ Len(list) = Cardinality(Range(list))
        /\ cls.free_count = Len(list)
        /\ cls.free_count >= 0
        /\ cls.free_count <= cls.slot_count

\* C38: for every class, after any sequence of slab_alloc, slab_free of
\* allocated pointers, rejected frees (which change nothing) and slab_reset,
\* the free list holds exactly the class's non-allocated slots, free_count is
\* its length and 0 <= free_count <= slot_count; the slot a class was last
\* given back is the one it hands out next; after slab_reset every class has
\* free_count = slot_count.
C38_SlabFreeListExact ==
    /\ [](\A c \in 1..slab.class_count : SlabListExact(c))
    /\ [](lev.op = "reset" =>
             \A c \in 1..slab.class_count :
                 slab.classes[c].free_count = slab.classes[c].slot_count)
    /\ [][/\ (lev'.op = "free" /\ ~lev'.ok) => (slab' = slab /\ lmem' = lmem)
          /\ (lev'.op = "free" /\ lev'.ok) =>
                 slab'.classes[SlabClassOf(lev'.ptr)].free_list = lev'.ptr
          /\ (lev'.op = "alloc" /\ lev'.ok) =>
                 /\ lev'.ptr = slab.classes[SlabClassOf(lev'.ptr)].free_list
                 /\ (lev.op = "free" /\ lev.ok /\ SlabClassOf(lev.ptr) = SlabClassOf(lev'.ptr))
                        => lev'.ptr = lev.ptr]_vars

\* a slot was freed, a free of a pointer off the slot boundaries was refused,
\* and the class still has a slot out
C38_Witness ==
    /\ lev.op = "free"
    /\ ~lev.ok
    /\ lev.ptr = slab.aligned_start + 1
    /\ \E c \in 1..slab.class_count :
          /\ slab.classes[c].free_count < slab.classes[c].slot_count
          /\ slab.classes[c].free_count > 0
          /\ slab.classes[c].free_list # slab.classes[c].region_start
          /\ SlabClassSlots(slab.classes[c]) \cap lallocated # {}

\* the marker the last arena_reset_to was given: the newest one still valid
ArenaLastMarker == amarkers[Len(amarkers)]

\* C39: arena_reset_to(m) writes no byte below m.offset in m's region and
\* none in any other region, in a release build (which writes nothing) and in
\* an ARENA_DEBUG build (which poisons from the marker on), so every
\* allocation made before m lies in a region that still exists, below
\* anything written, and is still the caller's.
C39_ResetToWritesAfterMarker ==
    aev.op = "reset_to" =>
        LET m == ArenaLastMarker
        IN  /\ ~adbg.on => adbg.written = {}
            /\ \A w \in adbg.written :
                   /\ w.blk = m.block
                   /\ w.lo >= m.offset
                   /\ w.hi <= ArenaRegionCapacity(w.blk)
            /\ Len(alive) = m.nlive
            /\ \A k \in 1..Len(alive) :
                   /\ ArenaRegionExists(alive[k].blk)
                   /\ alive[k].off + alive[k].size <= ArenaRegionOffset(alive[k].blk)
                   /\ \A w \in adbg.written :
                          alive[k].blk = w.blk => alive[k].off + alive[k].size <= w.lo

\* an ARENA_DEBUG arena was rewound to a marker taken after an allocation,
\* and bytes after the marker were poisoned
C39_Witness ==
    /\ aev.op = "reset_to"
    /\ adbg.on
    /\ adbg.written # {}
    /\ Len(alive) >= 1
    /\ ArenaLastMarker.offset > 0

\* C40: records_count never exceeds records_capacity, an allocation into a
\* full record buffer succeeds and overwrites no record, and after
\* arena_reset_to(m) the records kept are exactly those of the allocations
\* made before m was captured, also when tracking was enabled late or the
\* buffer had filled up.
C40_RecordsFollowMarker ==
    /\ [](Len(adbg.records) <= adbg.records_capacity)
    /\ [][/\ (aev'.op = "alloc" /\ adbg.on) =>
                 \/ adbg'.records = adbg.records
                 \/ /\ Len(adbg'.records) = Len(adbg.records) + 1
                    /\ SubSeq(adbg'.records, 1, Len(adbg.records)) = adbg.records
          /\ (aev'.op = "alloc" /\ adbg.on /\ aev'.size > 0
                  /\ Len(adbg.records) = adbg.records_capacity) =>
                 (aev'.ret # NULL /\ adbg'.records = adbg.records)
          /\ (aev'.op = "reset_to" /\ adbg.tracking) =>
                 LET before(r) == r.nth <= Len(alive')
                 IN  adbg'.records = SelectSeq(adbg.records, before)]_vars

(***************************************************************************)
(* The specifications.                                                     *)
(***************************************************************************)
InitArena == ArenaConstructed /\ StackIdle /\ PoolIdle /\ SlabIdle

SpecArena == InitArena /\ [][ArenaNext]_vars

InitStack == ArenaIdle /\ StackConstructed /\ PoolIdle /\ SlabIdle

SpecStack == InitStack /\ [][StackNext]_vars

InitPool == ArenaIdle /\ StackIdle /\ PoolConstructed /\ SlabIdle

SpecPool == InitPool /\ [][PoolNext]_vars

InitSlab == ArenaIdle /\ StackIdle /\ PoolIdle /\ SlabConstructed

SpecSlab == InitSlab /\ [][SlabNext]_vars

\* one of the two bump allocators: an arena or a stack
InitBump == InitArena \/ InitStack

BumpNext == (arena.initialized /\ ArenaNext) \/ (stack.buffer # NULL /\ StackNext)

SpecBump == InitBump /\ [][BumpNext]_vars

\* a pool from its zeroed descriptor on: sized, initialized, destroyed
InitPoolLife == ArenaIdle /\ StackIdle /\ PoolBlank /\ SlabIdle

SpecPoolLife == InitPoolLife /\ [][PoolLifeNext]_vars

\* a slab from its zeroed descriptor on: initialized (or not), used, destroyed
InitSlabLife == ArenaIdle /\ StackIdle /\ PoolIdle /\ SlabBlank

SpecSlabLife == InitSlabLife /\ [][SlabLifeNext]_vars

\* a stack of a build with STACK_DEBUG and STACK_VALIDATE_LIFO
InitStackLifo == InitStack /\ scfg.validate_lifo

SpecStackLifo == InitStackLifo /\ [][StackLifoNext]_vars

\* a zeroed pool descriptor, initialized over buffers and slot sizes of
\* every kind, and destroyed
SpecPoolInit == InitPoolLife /\ [][PoolInitNext]_vars

\* a pool of a release build whose caller frees slots twice
InitPoolMisuse == InitPool /\ ~pcfg.debug

SpecPoolMisuse == InitPoolMisuse /\ [][PoolMisuseNext]_vars

\* an arena of a build with or without ARENA_DEBUG, with record tracking
InitArenaDebug == ArenaDebugConstructed /\ StackIdle /\ PoolIdle /\ SlabIdle

SpecArenaDebug == InitArenaDebug /\ [][ArenaDebugNext]_vars

\* one of the arena, the pool and the slab, from its zeroed descriptor on
InitLife ==
    \/ ArenaBlank /\ StackIdle /\ PoolIdle /\ SlabIdle
    \/ ArenaIdle /\ StackIdle /\ PoolBlank /\ SlabIdle
    \/ ArenaIdle /\ StackIdle /\ PoolIdle /\ SlabBlank

SpecLife == InitLife /\ [][LifeNext]_vars

\* one of the two slot allocators: a pool or a slab
InitSlots == InitPool \/ InitSlab

SlotsNext == (pool.buffer # NULL /\ PoolNext) \/ (slab.initialized = SLAB_MAGIC /\ SlabNext)

SpecSlots == InitSlots /\ [][SlotsNext]_vars

=============================================================================
